---- MODULE Spec2Model ----
\* A model of the file-relay bot: the JSON-backed registry (database.py), the
\* expiry policy and code generator (utils.py) and the handlers, the rate
\* limiter and the expiry worker (bot.py).
\*
\* Text values that the code inspects (the /expire duration, user-id keys) are
\* sequences of one-character strings, so that lower(), endswith(), int() and
\* str() are computed as the code computes them.  Python's None is the empty
\* sequence for optional text and 0 for optional integers and references.
EXTENDS Integers, Sequences, FiniteSets, TLC

\* ------------------------------------------------------------------ bounds
MaxTicks == 3        \* clock advances explored
MaxUploads == 2      \* files archived to the storage chat
MaxCmds == 3         \* messages dispatched to two handler threads
MaxServed == 4       \* messages dispatched to one handler thread
MaxSeconds == 11     \* the rate limiter's clock runs from 0 to this
MaxAttempts == 5     \* upload attempts put to the rate limiter
MaxErrors == 1       \* sweeps of the expiry worker that raise
MaxSleeps == 1       \* sleeps of the expiry worker during which the clock moves
MaxExpires == 2      \* `/expire` commands served while the expiry worker runs

\* ------------------------------------------------------- program constants
RATE_LIMIT_MAX_FILES == 3
RATE_LIMIT_WINDOW_SEC == 10
OWNER_ID == 1
NUM_THREADS == 2
CODE_LENGTH == 6
EXPIRE_CHECK_INTERVAL_SEC == 600

ADMIN_USER_IDS == {OWNER_ID}
Users == {1, 2}
NoUser == 0          \* message.from_user is None (bot.py:117 and 398 use id 0 for it)
None == <<>>
NoEntry == 0

Handlers == 1..NUM_THREADS

\* The instants the clock visits, in seconds: upload time, two minutes later,
\* 59 and 61 minutes after the first, then every two minutes.
ClockAt(k) ==
    CASE k = 0 -> 0
      [] k = 1 -> 120
      [] k = 2 -> 3540
      [] OTHER -> 3660 + (k - 3) * 120

\* ------------------------------------------------------------------ text
Digits == <<"0", "1", "2", "3", "4", "5", "6", "7", "8", "9">>
UpperCase == <<"D", "E", "H", "L", "M", "N", "R", "T", "V">>
LowerCase == <<"d", "e", "h", "l", "m", "n", "r", "t", "v">>

IsDigit(ch) == \E i \in 1..Len(Digits) : Digits[i] = ch
DigitVal(ch) == (CHOOSE i \in 1..Len(Digits) : Digits[i] = ch) - 1

\* str.lower()
LowerChar(ch) ==
    IF \E i \in 1..Len(UpperCase) : UpperCase[i] = ch
    THEN LowerCase[CHOOSE i \in 1..Len(UpperCase) : UpperCase[i] = ch]
    ELSE ch
Lower(s) == [i \in 1..Len(s) |-> LowerChar(s[i])]

\* str.strip()
RECURSIVE LStrip(_)
LStrip(s) == IF s # <<>> /\ Head(s) = " " THEN LStrip(Tail(s)) ELSE s
RECURSIVE RStrip(_)
RStrip(s) == IF s # <<>> /\ s[Len(s)] = " " THEN RStrip(SubSeq(s, 1, Len(s) - 1)) ELSE s
Strip(s) == RStrip(LStrip(s))

EndsWith(s, ch) == s # <<>> /\ s[Len(s)] = ch
DropLast(s) == SubSeq(s, 1, Len(s) - 1)

\* int(text): an optional sign and at least one decimal digit; anything else
\* raises ValueError.
RECURSIVE DigitsValue(_)
DigitsValue(s) == IF s = <<>> THEN 0 ELSE DigitsValue(DropLast(s)) * 10 + DigitVal(s[Len(s)])
AllDigits(s) == s # <<>> /\ \A i \in 1..Len(s) : IsDigit(s[i])
IntOk(s) ==
    IF s # <<>> /\ Head(s) \in {"+", "-"} THEN AllDigits(Tail(s)) ELSE AllDigits(s)
IntOf(s) ==
    IF Head(s) = "-" THEN 0 - DigitsValue(Tail(s))
    ELSE IF Head(s) = "+" THEN DigitsValue(Tail(s))
    ELSE DigitsValue(s)

\* str(n) for n >= 0
RECURSIVE StrOf(_)
StrOf(n) == IF n < 10 THEN <<Digits[n + 1]>> ELSE StrOf(n \div 10) \o <<Digits[(n % 10) + 1]>>

\* ------------------------------------------------------------------ time
\* timedelta(minutes=1), timedelta(hours=1), timedelta(days=1), in seconds
MINUTE == 60
HOUR == 3600
DAY == 86400

\* strftime('%Y-%m-%d %H:%M:%S') keeps whole seconds; the date is the day
\* number.  strptime is its inverse on what strftime writes.
strftime(t) == <<t \div 86400, (t % 86400) \div 3600, (t % 3600) \div 60, t % 60>>
strptime(ts) == ts[1] * 86400 + ts[2] * 3600 + ts[3] * 60 + ts[4]

now_str(clock) == strftime(clock)

\* parse_expiry(value) at clock time `clock`: None, DELETE, or a timestamp.
DELETE == <<"delete">>
NeverWords ==
    { <<"n", "o", "n", "e">>, <<"n", "e", "v", "e", "r">>, <<"n", "i", "l">>,
      <<"n", "u", "l", "l">>, <<>> }
\* parse_expiry with unreadable text taken as "at once"
parse_expiry_invalid_now(value, clock) ==
    LET v == Lower(Strip(value)) IN
    IF v \in NeverWords THEN None
    ELSE IF v = <<"d", "e", "l", "e", "t", "e">> THEN DELETE
    ELSE IF EndsWith(v, "h")
         THEN IF IntOk(DropLast(v)) THEN strftime(clock + IntOf(DropLast(v)) * HOUR) ELSE strftime(clock)
    ELSE IF EndsWith(v, "d")
         THEN IF IntOk(DropLast(v)) THEN strftime(clock + IntOf(DropLast(v)) * DAY) ELSE strftime(clock)
    ELSE IF EndsWith(v, "m")
         THEN IF IntOk(DropLast(v)) THEN strftime(clock + IntOf(DropLast(v)) * MINUTE) ELSE strftime(clock)
    ELSE IF IntOk(v) THEN strftime(clock + IntOf(v) * MINUTE) ELSE strftime(clock)
\* parse_expiry with the hours counted as minutes
parse_expiry_hours_as_minutes(value, clock) ==
    LET v == Lower(Strip(value)) IN
    IF v \in NeverWords THEN None
    ELSE IF v = <<"d", "e", "l", "e", "t", "e">> THEN DELETE
    ELSE IF EndsWith(v, "h")
         THEN IF IntOk(DropLast(v)) THEN strftime(clock + IntOf(DropLast(v)) * MINUTE) ELSE None
    ELSE IF EndsWith(v, "d")
         THEN IF IntOk(DropLast(v)) THEN strftime(clock + IntOf(DropLast(v)) * DAY) ELSE None
    ELSE IF EndsWith(v, "m")
         THEN IF IntOk(DropLast(v)) THEN strftime(clock + IntOf(DropLast(v)) * MINUTE) ELSE None
    ELSE IF IntOk(v) THEN strftime(clock + IntOf(v) * MINUTE) ELSE None
parse_expiry(value, clock) ==
    LET v == Lower(Strip(value)) IN
    IF v \in NeverWords THEN None
    ELSE IF v = <<"d", "e", "l", "e", "t", "e">> THEN DELETE
    ELSE IF EndsWith(v, "h")
         THEN IF IntOk(DropLast(v)) THEN strftime(clock + IntOf(DropLast(v)) * HOUR) ELSE None
    ELSE IF EndsWith(v, "d")
         THEN IF IntOk(DropLast(v)) THEN strftime(clock + IntOf(DropLast(v)) * DAY) ELSE None
    ELSE IF EndsWith(v, "m")
         THEN IF IntOk(DropLast(v)) THEN strftime(clock + IntOf(DropLast(v)) * MINUTE) ELSE None
    ELSE IF IntOk(v) THEN strftime(clock + IntOf(v) * MINUTE) ELSE None

\* is_expired true only at the very second of expiry
is_expired_only_then(entry, clock) ==
    IF entry.expires_at = None THEN FALSE ELSE strptime(entry.expires_at) = clock
\* is_expired with the comparison made strict
is_expired_strict(entry, clock) ==
    IF entry.expires_at = None THEN FALSE ELSE strptime(entry.expires_at) < clock
\* Database.is_expired(entry) at clock time `clock`
is_expired(entry, clock) ==
    IF entry.expires_at = None THEN FALSE ELSE strptime(entry.expires_at) <= clock

\* ------------------------------------------------------------------ codes
\* gen_code(length): random.choices over lowercase letters and digits.  The
\* draws explored are the strings made of one repeated character of DrawChars.
DrawChars == {"a", "7"}
gen_code(length) == { [i \in 1..length |-> ch] : ch \in DrawChars }

is_admin(user_id) == user_id \in ADMIN_USER_IDS

\* ------------------------------------------------ ordered mappings (dict)
\* A dict is a sequence of <<key, value>> pairs in insertion order.
Keys(d) == [i \in 1..Len(d) |-> d[i][1]]
Has(d, k) == \E i \in 1..Len(d) : d[i][1] = k
IndexOf(d, k) == CHOOSE i \in 1..Len(d) : d[i][1] = k
Get(d, k) == d[IndexOf(d, k)][2]
Put(d, k, v) == IF Has(d, k) THEN [d EXCEPT ![IndexOf(d, k)] = <<k, v>>] ELSE Append(d, <<k, v>>)
Del(d, k) == SelectSeq(d, LAMBDA p : p[1] # k)

\* ------------------------------------------------------------------ state
VARIABLES
    codes,         \* db.data["codes"]: ordered mapping code -> reference to an entry dict
    heap,          \* the entry dicts ever created, by reference (1, 2, ...)
    users,         \* db.data["users"]: ordered mapping str(user_id) -> [uploads, retrieved]
    disk,          \* the JSON file: what the last _save wrote, by value
    lock,          \* db._lock: 0 when free, else the thread holding it
    clock,         \* the process clock, in seconds
    rate_buckets,  \* user_id -> timestamps of accepted uploads
    storage,       \* message ids present in the storage chat
    archived,      \* messages ever copied to the storage chat
    pc,            \* per handler thread: where it is
    loc,           \* per handler thread: the message and the handler's locals
    sw,            \* the expiry worker: position, snapshot, current code and entry
    ncmds,         \* messages dispatched so far
    hist           \* the calls recorded so far (rate limiter: <<user, time, accepted>>)

vars == <<codes, heap, users, disk, lock, clock, rate_buckets, storage, archived, pc, loc, sw, ncmds, hist>>

now == clock

\* json.dump(self.data): the entries by value, in order.
Dump(cs, hp, us) ==
    [codes |-> [i \in 1..Len(cs) |-> <<cs[i][1], hp[cs[i][2]]>>], users |-> us]
\* a save that writes nothing
_save_skipped == UNCHANGED disk
_save == disk' = Dump(codes', heap', users')

\* ------------------------------------------------------ Database methods
has_code(code) == Has(codes, code)
get_code(code) == IF Has(codes, code) THEN Get(codes, code) ELSE NoEntry

put_code(code, entry) ==
    /\ heap' = Append(heap, entry)
    /\ codes' = Put(codes, code, Len(heap) + 1)
    /\ UNCHANGED users
    /\ _save

update_code_all_entries(code, field, value) ==
    IF Has(codes, code)
    THEN /\ heap' = [r \in 1..Len(heap) |-> [heap[r] EXCEPT ![field] = value]]
         /\ UNCHANGED <<codes, users>>
         /\ _save
    ELSE UNCHANGED <<codes, heap, users, disk>>
update_code(code, field, value) ==
    IF Has(codes, code)
    THEN /\ heap' = [heap EXCEPT ![Get(codes, code)][field] = value]
         /\ UNCHANGED <<codes, users>>
         /\ _save
    ELSE UNCHANGED <<codes, heap, users, disk>>

delete_code(code) ==
    IF Has(codes, code)
    THEN /\ codes' = Del(codes, code)
         /\ UNCHANGED <<heap, users>>
         /\ _save
    ELSE UNCHANGED <<codes, heap, users, disk>>

\* rename_code's test, made while holding the lock
rename_allowed_old_only(old, new) == Has(codes, old)
rename_allowed(old, new) == Has(codes, old) /\ ~Has(codes, new)

\* ensure_user followed by the increment, under one hold of the lock
NewUser == [uploads |-> 0, retrieved |-> 0]
\* ensure_user that starts the record afresh each time
ensure_user_afresh(us, user_id) == Put(us, StrOf(user_id), NewUser)
ensure_user(us, user_id) ==
    IF Has(us, StrOf(user_id)) THEN us ELSE Append(us, <<StrOf(user_id), NewUser>>)
Bump_twice(us, user_id, field, by) ==
    [us EXCEPT ![IndexOf(us, StrOf(user_id))][2][field] = @ + by + by]
Bump(us, user_id, field, by) ==
    [us EXCEPT ![IndexOf(us, StrOf(user_id))][2][field] = @ + by]
inc_upload(user_id, by) ==
    /\ users' = Bump(ensure_user(users, user_id), user_id, "uploads", by)
    /\ UNCHANGED <<codes, heap>>
    /\ _save
inc_retrieved(user_id, by) ==
    /\ users' = Bump(ensure_user(users, user_id), user_id, "retrieved", by)
    /\ UNCHANGED <<codes, heap>>
    /\ _save

\* delete_user that also drops the user's entries
delete_user_and_files(user_id) ==
    IF Has(users, StrOf(user_id))
    THEN /\ users' = Del(users, StrOf(user_id))
         /\ codes' = SelectSeq(codes, LAMBDA p : heap[p[2]].uploader # user_id)
         /\ UNCHANGED heap
         /\ _save
    ELSE UNCHANGED <<codes, heap, users, disk>>
delete_user(user_id) ==
    IF Has(users, StrOf(user_id))
    THEN /\ users' = Del(users, StrOf(user_id))
         /\ UNCHANGED <<codes, heap>>
         /\ _save
    ELSE UNCHANGED <<codes, heap, users, disk>>

\* ---- the queries: list_by_category, list_by_user, search_codes
DEFAULT_LIMIT == 50
\* ' '.join(parts)
RECURSIVE Join(_)
Join(parts) ==
    IF Len(parts) = 0 THEN <<>>
    ELSE IF Len(parts) = 1 THEN parts[1]
    ELSE parts[1] \o <<" ">> \o Join(Tail(parts))
\* needle in hay
Contains(needle, hay) ==
    \E i \in 0..(Len(hay) - Len(needle)) : SubSeq(hay, i + 1, i + Len(needle)) = needle
\* {"code": c, **e} for each pair of the mapping, in its order
Items(cs, hp) == [i \in 1..Len(cs) |-> [code |-> cs[i][1]] @@ hp[cs[i][2]]]
\* x.get("uploaded_at") or "", and the order of two such keys
SortKey(x) == IF x.uploaded_at = None THEN <<>> ELSE x.uploaded_at
RECURSIVE KeyLess(_, _)
KeyLess(a, b) ==
    IF b = <<>> THEN FALSE
    ELSE IF a = <<>> THEN TRUE
    ELSE IF Head(a) # Head(b) THEN Head(a) < Head(b)
    ELSE KeyLess(Tail(a), Tail(b))
\* results.sort(key=..., reverse=True): descending, equal keys keep their order
RECURSIVE InsertDesc(_, _)
InsertDesc(sorted, x) ==
    IF sorted = <<>> THEN <<x>>
    ELSE IF KeyLess(SortKey(Head(sorted)), SortKey(x)) THEN <<x>> \o sorted
    ELSE <<Head(sorted)>> \o InsertDesc(Tail(sorted), x)
RECURSIVE SortAsc(_)
SortAsc(s) ==
    IF s = <<>> THEN <<>>
    ELSE LET rest == SortAsc(DropLast(s)) IN
         LET x == s[Len(s)] IN
         LET k == Cardinality({ i \in 1..Len(rest) : ~KeyLess(SortKey(x), SortKey(rest[i])) }) IN
         SubSeq(rest, 1, k) \o <<x>> \o SubSeq(rest, k + 1, Len(rest))
RECURSIVE SortDesc(_)
SortDesc(s) == IF s = <<>> THEN <<>> ELSE InsertDesc(SortDesc(DropLast(s)), s[Len(s)])
\* results[:limit], limit >= 0
Truncate(results, limit) ==
    SubSeq(results, 1, IF limit < Len(results) THEN limit ELSE Len(results))

list_by_category(category, limit) ==
    Truncate(SortDesc(SelectSeq(Items(codes, heap), LAMBDA x : x.category = category)), limit)
list_by_user(user_id, limit) ==
    Truncate(SortDesc(SelectSeq(Items(codes, heap), LAMBDA x : x.uploader = user_id)), limit)

\* the text search_codes looks in: the five fields joined by single spaces
Hay(x) == Lower(Join(<<x.code, x.file_type, x.file_name, x.caption, x.mime_type>>))
search_codes_as_typed(query, limit) ==
    Truncate(SortDesc(SelectSeq(Items(codes, heap), LAMBDA x : Contains(query, Hay(x)))), limit)
search_codes(query, limit) ==
    LET q == Lower(query) IN
    Truncate(SortDesc(SelectSeq(Items(codes, heap), LAMBDA x : Contains(q, Hay(x)))), limit)

\* ------------------------------------------------------------ the messages
DOCUMENT == <<"d", "o", "c", "u", "m", "e", "n", "t">>
CATEGORIES(ft) ==
    CASE ft = <<"p", "h", "o", "t", "o">> -> "Images"
      [] ft = <<"i", "m", "a", "g", "e">> -> "Images"
      [] ft = <<"v", "i", "d", "e", "o">> -> "Videos"
      [] ft = <<"a", "n", "i", "m", "a", "t", "i", "o", "n">> -> "Videos"
      [] ft = <<"a", "u", "d", "i", "o">> -> "Audio"
      [] ft = <<"v", "o", "i", "c", "e">> -> "Audio"
      [] ft = DOCUMENT -> "Documents"
      [] ft = <<"s", "t", "i", "c", "k", "e", "r">> -> "Other"
      [] OTHER -> "Other"
ZIP_MIME_TYPES ==
    { <<"a", "p", "p", "l", "i", "c", "a", "t", "i", "o", "n", "/", "z", "i", "p">> }
IsZipName(name) ==
    Len(name) >= 4 /\ Lower(SubSeq(name, Len(name) - 3, Len(name))) = <<".", "z", "i", "p">>
detect_category(file_type, mime_type, file_name) ==
    IF mime_type # None /\ Lower(mime_type) \in ZIP_MIME_TYPES THEN "Zip"
    ELSE IF file_name # None /\ IsZipName(file_name) THEN "Zip"
    ELSE CATEGORIES(Lower(file_type))

\* The files users send: [file_type, file_id, mime_type, file_name, caption].
Incoming ==
    { [file_type |-> DOCUMENT, file_id |-> "f1", mime_type |-> None,
       file_name |-> None, caption |-> None] }

\* The codes users type in commands: generated ones and one that gen_code
\* never draws.
TypedCodes == gen_code(CODE_LENGTH) \cup { <<"Q">> }
ExpireValues ==
    { <<"0">>, <<"1", "h">>, <<"n", "e", "v", "e", "r">>, <<"d", "e", "l", "e", "t", "e">> }

\* What the bot answers (the texts of bot.py, abbreviated).
MSG_NOT_FOUND == "Error: File not found or expired."
MSG_LOCKED == "This file is locked to its owner and cannot be retrieved by you."
MSG_SEND_FAILED == "Error: File could not be sent."
MSG_SLOW_DOWN == "Slow down!"
MSG_NO_STORAGE == "Error: Could not save to storage group."
MSG_SAVED == "Saved!"
MSG_ONLY_OWNER == "Only the uploader or admin can do this."
MSG_LOCK_SET == "Code locked to you."
MSG_EXISTS == "New code already exists."
MSG_RENAMED == "Renamed"
MSG_NOT_RENAMED == "Could not rename code."
MSG_DELETED == "Deleted code and removed from storage."
MSG_EXPIRY_SET == "Expiry set."
MSG_USAGE_DELETE_USER == "Usage: /delete_user <user_id>"
MSG_INVALID_USER == "Invalid user id."
MSG_USER_DELETED == "Deleted user stats. (Files remain)"
MSG_CLEANED(removed) == "Cleaned expired files: " \o ToString(removed)

NoFile ==
    [file_type |-> None, file_id |-> "", mime_type |-> None, file_name |-> None,
     caption |-> None]
Loc0 ==
    [cmd |-> "", uid |-> NoUser, code |-> None, new |-> None, val |-> None,
     file |-> NoFile, entry |-> NoEntry, popped |-> NoEntry, dt |-> None, smid |-> 0,
     t |-> 0, n |-> 0, todo |-> <<>>, out |-> "", trace |-> <<>>]

UploadMsgs ==
    { [Loc0 EXCEPT !.cmd = "upload", !.uid = u, !.file = f] :
        u \in Users \cup {NoUser}, f \in Incoming }
GetMsgs ==
    { [Loc0 EXCEPT !.cmd = "get", !.uid = u, !.code = c] :
        u \in Users \cup {NoUser}, c \in gen_code(CODE_LENGTH) }
LockMsgs ==
    { [Loc0 EXCEPT !.cmd = "lock_code", !.uid = u, !.code = c] :
        u \in Users, c \in gen_code(CODE_LENGTH) }
RenameMsgs ==
    { [Loc0 EXCEPT !.cmd = "rename_code", !.uid = u, !.code = c, !.new = n] :
        u \in Users, c \in gen_code(CODE_LENGTH), n \in TypedCodes }
ExpireMsgs ==
    { [Loc0 EXCEPT !.cmd = "expire", !.uid = u, !.code = c, !.val = v] :
        u \in Users, c \in gen_code(CODE_LENGTH), v \in ExpireValues }
\* Database.rename_code called directly with any pair of codes.
RenameCalls ==
    { [Loc0 EXCEPT !.cmd = "db.rename_code", !.code = c, !.new = n] :
        c \in TypedCodes, n \in TypedCodes }
\* /delete_user with the user id typed: a known user, one with a leading zero,
\* an unknown user, a text that is no integer, or nothing
TypedUserIds == { <<"1">>, <<"2">>, <<"0", "2">>, <<"3">>, <<"x">>, None }
DeleteUserMsgs ==
    { [Loc0 EXCEPT !.cmd = "delete_user", !.uid = u, !.val = v] :
        u \in Users, v \in TypedUserIds }
StorageCleanMsgs == { [Loc0 EXCEPT !.cmd = "storage_clean", !.uid = u] : u \in Users }
Messages == UploadMsgs \cup GetMsgs \cup LockMsgs \cup RenameMsgs \cup ExpireMsgs

EntryPoint(cmd) ==
    CASE cmd = "upload" -> "check_rate_limit"
      [] cmd = "get" -> "Lookup"
      [] cmd = "lock_code" -> "lock_get"
      [] cmd = "rename_code" -> "rename_get"
      [] cmd = "db.rename_code" -> "rename_code"
      [] cmd = "expire" -> "expire_get"
      [] cmd = "delete_user" -> "delete_user"
      [] cmd = "storage_clean" -> "clean_snapshot"
      [] cmd = "check_rate_limit" -> "rl_now"
      [] cmd = "save_file_entry" -> "gen_code"
      [] cmd = "db.inc_upload" -> "inc_enter"
      [] cmd = "db.inc_retrieved" -> "inc_enter"

Sw0 == [pc |-> "sleep", wake |-> 0, todo |-> <<>>, code |-> None, entry |-> NoEntry]

\* ------------------------------------------------------------------ steps
Init ==
    /\ codes = <<>>
    /\ heap = <<>>
    /\ users = <<>>
    /\ disk = Dump(<<>>, <<>>, <<>>)
    /\ lock = 0
    /\ clock = 0
    /\ rate_buckets = [u \in Users \cup {NoUser} |-> <<>>]
    /\ storage = {}
    /\ archived = 0
    /\ pc = [h \in Handlers |-> "idle"]
    /\ loc = [h \in Handlers |-> Loc0]
    /\ sw = Sw0
    /\ ncmds = 0
    /\ hist = <<>>

db == <<codes, heap, users, disk>>
Goto(h, label) == pc' = [pc EXCEPT ![h] = label]
\* A handler that returns keeps, for the record, the message it served and what
\* it answered; its other locals are gone.
Returned(l, text, trace) ==
    [Loc0 EXCEPT !.cmd = l.cmd, !.out = text, !.trace = trace]
Reply(h, text) ==
    /\ pc' = [pc EXCEPT ![h] = "done"]
    /\ loc' = [loc EXCEPT ![h] = Returned(@, text, @.trace)]
Free == lock = 0

\* A worker thread takes the next message.
Dispatch(h, msgs, limit) ==
    /\ pc[h] \in {"idle", "done"}
    /\ ncmds < limit
    /\ \E m \in msgs :
        /\ loc' = [loc EXCEPT ![h] = m]
        /\ Goto(h, EntryPoint(m.cmd))
    /\ ncmds' = ncmds + 1
    /\ UNCHANGED <<db, lock, clock, rate_buckets, storage, archived, sw, hist>>

\* Time passes: the clock moves to a later one of the instants explored.
Instants == { ClockAt(k) : k \in 0..MaxTicks }
AdvanceClock(instants) ==
    /\ \E t \in instants : t > clock /\ clock' = t
    /\ UNCHANGED <<db, lock, rate_buckets, storage, archived, pc, loc, sw, ncmds, hist>>
Tick == AdvanceClock(Instants)

\* ---- check_rate_limit (bot.py:386)
\* the purge with a window that excludes its far end
Purge_inclusive(dq, t) == SelectSeq(dq, LAMBDA x : t - x < RATE_LIMIT_WINDOW_SEC)
RECURSIVE Purge(_, _)
Purge(dq, t) ==
    IF dq # <<>> /\ t - Head(dq) > RATE_LIMIT_WINDOW_SEC THEN Purge(Tail(dq), t) ELSE dq
\* deque(maxlen=RATE_LIMIT_MAX_FILES).append
DequeAppend(dq, t) ==
    IF Len(dq) >= RATE_LIMIT_MAX_FILES THEN Append(Tail(dq), t) ELSE Append(dq, t)
rate_accepts(dq, t) == Len(Purge(dq, t)) < RATE_LIMIT_MAX_FILES
rate_after(dq, t) == IF rate_accepts(dq, t) THEN DequeAppend(Purge(dq, t), t) ELSE Purge(dq, t)

\* check_rate_limit as the worker threads run it, one deque operation at a
\* time: nothing keeps another thread out between two of them.
INDEX_ERROR == "IndexError"
Record(h, accepted) == hist' = Append(hist, <<loc[h].uid, loc[h].t, accepted>>)
\* dq = rate_buckets[user_id]; now = time.time()
RlNow(h) ==
    /\ pc[h] = "rl_now"
    /\ loc' = [loc EXCEPT ![h].t = now]
    /\ Goto(h, "rl_while")
    /\ UNCHANGED <<db, lock, clock, rate_buckets, storage, archived, sw, ncmds, hist>>
\* while dq ...
RlWhile(h) ==
    /\ pc[h] = "rl_while"
    /\ Goto(h, IF rate_buckets[loc[h].uid] # <<>> THEN "rl_head" ELSE "rl_len")
    /\ UNCHANGED <<db, lock, clock, rate_buckets, storage, archived, loc, sw, ncmds, hist>>
\* ... and (now - dq[0] > RATE_LIMIT_WINDOW_SEC)
RlHead(h) ==
    /\ pc[h] = "rl_head"
    /\ IF rate_buckets[loc[h].uid] = <<>> THEN Reply(h, INDEX_ERROR)
       ELSE /\ Goto(h, IF loc[h].t - Head(rate_buckets[loc[h].uid]) > RATE_LIMIT_WINDOW_SEC
                       THEN "rl_popleft" ELSE "rl_len")
            /\ UNCHANGED loc
    /\ UNCHANGED <<db, lock, clock, rate_buckets, storage, archived, sw, ncmds, hist>>
\* dq.popleft()
RlPopLeft(h) ==
    /\ pc[h] = "rl_popleft"
    /\ IF rate_buckets[loc[h].uid] = <<>>
       THEN Reply(h, INDEX_ERROR) /\ UNCHANGED rate_buckets
       ELSE /\ rate_buckets' = [rate_buckets EXCEPT ![loc[h].uid] = Tail(@)]
            /\ Goto(h, "rl_while")
            /\ UNCHANGED loc
    /\ UNCHANGED <<db, lock, clock, storage, archived, sw, ncmds, hist>>
\* if len(dq) >= RATE_LIMIT_MAX_FILES: return False
RlLen(h) ==
    /\ pc[h] = "rl_len"
    /\ IF Len(rate_buckets[loc[h].uid]) >= RATE_LIMIT_MAX_FILES
       THEN Reply(h, MSG_SLOW_DOWN) /\ Record(h, FALSE)
       ELSE Goto(h, "rl_append") /\ UNCHANGED <<loc, hist>>
    /\ UNCHANGED <<db, lock, clock, rate_buckets, storage, archived, sw, ncmds>>
\* dq.append(now); return True
RlAppend(h) ==
    /\ pc[h] = "rl_append"
    /\ rate_buckets' = [rate_buckets EXCEPT ![loc[h].uid] = DequeAppend(@, loc[h].t)]
    /\ Record(h, TRUE)
    /\ Reply(h, "")
    /\ UNCHANGED <<db, lock, clock, storage, archived, sw, ncmds>>
RateLimit(h) == RlNow(h) \/ RlWhile(h) \/ RlHead(h) \/ RlPopLeft(h) \/ RlLen(h) \/ RlAppend(h)

\* ---- process_incoming_file and save_file_entry (bot.py:397, 35)
\* check_rate_limit run by one thread without another in between
CheckRateLimit(h) ==
    /\ pc[h] = "check_rate_limit"
    /\ rate_buckets' = [rate_buckets EXCEPT ![loc[h].uid] = rate_after(@, now)]
    /\ IF rate_accepts(rate_buckets[loc[h].uid], now)
       THEN Goto(h, "archive") /\ UNCHANGED loc
       ELSE Reply(h, MSG_SLOW_DOWN)
    /\ UNCHANGED <<db, lock, clock, storage, archived, sw, ncmds, hist>>

\* an upload that goes on to save_file_entry although the copy raised
Archive_goes_on(h) ==
    /\ pc[h] = "archive"
    /\ \/ /\ archived < MaxUploads
          /\ archived' = archived + 1
          /\ storage' = storage \cup {archived + 1}
          /\ loc' = [loc EXCEPT ![h].smid = archived + 1]
          /\ Goto(h, "gen_code")
       \/ /\ Goto(h, "gen_code")
          /\ UNCHANGED <<loc, storage, archived>>
    /\ UNCHANGED <<db, lock, clock, rate_buckets, sw, ncmds, hist>>
\* bot.copy_message to the storage chat: it returns the new message id or raises.
Archive(h) ==
    /\ pc[h] = "archive"
    /\ \/ /\ archived < MaxUploads
          /\ archived' = archived + 1
          /\ storage' = storage \cup {archived + 1}
          /\ loc' = [loc EXCEPT ![h].smid = archived + 1]
          /\ Goto(h, "gen_code")
       \/ /\ Reply(h, MSG_NO_STORAGE)
          /\ UNCHANGED <<storage, archived>>
    /\ UNCHANGED <<db, lock, clock, rate_buckets, sw, ncmds, hist>>

\* code = gen_code(); while db.has_code(code): code = gen_code()
GenCode(h) ==
    /\ pc[h] = "gen_code"
    /\ Free
    /\ \E c \in gen_code(CODE_LENGTH) :
        IF has_code(c)
        THEN UNCHANGED <<pc, loc>>
        ELSE loc' = [loc EXCEPT ![h].code = c] /\ Goto(h, "put_code")
    /\ UNCHANGED <<db, lock, clock, rate_buckets, storage, archived, sw, ncmds, hist>>

NewEntry(h) ==
    [file_id |-> loc[h].file.file_id,
     file_type |-> loc[h].file.file_type,
     uploader |-> loc[h].uid,
     uploaded_at |-> now_str(now),
     expires_at |-> None,
     storage_message_id |-> loc[h].smid,
     category |-> detect_category(loc[h].file.file_type, loc[h].file.mime_type,
                                  loc[h].file.file_name),
     locked_to |-> 0,
     file_name |-> loc[h].file.file_name,
     caption |-> loc[h].file.caption,
     mime_type |-> loc[h].file.mime_type]

PutCode(h) ==
    /\ pc[h] = "put_code"
    /\ Free
    /\ put_code(loc[h].code, NewEntry(h))
    /\ Goto(h, "inc_upload")
    /\ UNCHANGED <<lock, clock, rate_buckets, storage, archived, loc, sw, ncmds, hist>>

IncUpload(h) ==
    /\ pc[h] = "inc_upload"
    /\ Free
    /\ inc_upload(loc[h].uid, 1)
    /\ Reply(h, MSG_SAVED)
    /\ UNCHANGED <<lock, clock, rate_buckets, storage, archived, sw, ncmds, hist>>

\* ---- handle_retrieval (bot.py:95)
DELIVERED == "(the file)"
Stage(h, ev, label) ==
    /\ loc' = [loc EXCEPT ![h].trace = Append(@, ev)]
    /\ Goto(h, label)
Reject(h, ev, text) ==
    /\ loc' = [loc EXCEPT ![h] = Returned(@, text, Append(@.trace, ev))]
    /\ Goto(h, "done")

\* the lock test without the case of an unknown requester
lock_rejects_known_only(locked_to, uid) == locked_to # 0 /\ uid # NoUser /\ uid # locked_to
\* the lock test of bot.py:108; uid is NoUser when message.from_user is None
lock_rejects(locked_to, uid) == locked_to # 0 /\ (uid = NoUser \/ uid # locked_to)

Lookup(h) ==
    /\ pc[h] = "Lookup"
    /\ Free
    /\ IF get_code(loc[h].code) = NoEntry
       THEN Reject(h, "Lookup", MSG_NOT_FOUND)
       ELSE /\ loc' = [loc EXCEPT ![h].entry = get_code(loc[h].code),
                                  ![h].trace = Append(@, "Lookup")]
            /\ Goto(h, "ExpiryCheck")
    /\ UNCHANGED <<db, lock, clock, rate_buckets, storage, archived, sw, ncmds, hist>>

ExpiryCheck(h) ==
    /\ pc[h] = "ExpiryCheck"
    /\ IF is_expired(heap[loc[h].entry], now)
       THEN Reject(h, "ExpiryCheck", MSG_NOT_FOUND)
       ELSE Stage(h, "ExpiryCheck", "LockCheck")
    /\ UNCHANGED <<db, lock, clock, rate_buckets, storage, archived, sw, ncmds, hist>>

LockCheck(h) ==
    /\ pc[h] = "LockCheck"
    /\ IF lock_rejects(heap[loc[h].entry].locked_to, loc[h].uid)
       THEN Reject(h, "LockCheck", MSG_LOCKED)
       ELSE Stage(h, "LockCheck", "SendPrimary")
    /\ UNCHANGED <<db, lock, clock, rate_buckets, storage, archived, sw, ncmds, hist>>

AfterPrimary_always_fallback(ok) == "SendFallback"
\* try_send_by_file_id: the transport delivers or raises.
AfterPrimary(ok) == IF ok THEN "inc_retrieved" ELSE "SendFallback"
SendPrimary(h) ==
    /\ pc[h] = "SendPrimary"
    /\ \E ok \in BOOLEAN :
        Stage(h, IF ok THEN "Primary:ok" ELSE "Primary:failed", AfterPrimary(ok))
    /\ UNCHANGED <<db, lock, clock, rate_buckets, storage, archived, sw, ncmds, hist>>

\* send_from_storage: copy_message of the archived copy; a copy that is gone
\* cannot be delivered.
SendFallback(h) ==
    /\ pc[h] = "SendFallback"
    /\ \/ /\ heap[loc[h].entry].storage_message_id \in storage
          /\ Stage(h, "Fallback:ok", "inc_retrieved")
       \/ Reject(h, "Fallback:failed", MSG_SEND_FAILED)
    /\ UNCHANGED <<db, lock, clock, rate_buckets, storage, archived, sw, ncmds, hist>>

IncRetrieved(h) ==
    /\ pc[h] = "inc_retrieved"
    /\ Free
    /\ inc_retrieved(loc[h].uid, 1)
    /\ Reject(h, "Counted", DELIVERED)
    /\ UNCHANGED <<lock, clock, rate_buckets, storage, archived, sw, ncmds, hist>>

\* ---- on_lock_code (bot.py:224)
may_change(entry, uid) == entry.uploader = uid \/ is_admin(uid)

LockGet(h) ==
    /\ pc[h] = "lock_get"
    /\ Free
    /\ IF get_code(loc[h].code) = NoEntry THEN Reply(h, MSG_NOT_FOUND)
       ELSE IF ~may_change(heap[get_code(loc[h].code)], loc[h].uid) THEN Reply(h, MSG_ONLY_OWNER)
       ELSE loc' = [loc EXCEPT ![h].entry = get_code(loc[h].code)] /\ Goto(h, "lock_update")
    /\ UNCHANGED <<db, lock, clock, rate_buckets, storage, archived, sw, ncmds, hist>>

LockUpdate(h) ==
    /\ pc[h] = "lock_update"
    /\ Free
    /\ update_code(loc[h].code, "locked_to", loc[h].uid)
    /\ Reply(h, MSG_LOCK_SET)
    /\ UNCHANGED <<lock, clock, rate_buckets, storage, archived, sw, ncmds, hist>>

\* ---- on_rename_code (bot.py:241) and Database.rename_code (database.py:91)
RenameGet(h) ==
    /\ pc[h] = "rename_get"
    /\ Free
    /\ IF get_code(loc[h].code) = NoEntry THEN Reply(h, MSG_NOT_FOUND)
       ELSE loc' = [loc EXCEPT ![h].entry = get_code(loc[h].code)] /\ Goto(h, "rename_has")
    /\ UNCHANGED <<db, lock, clock, rate_buckets, storage, archived, sw, ncmds, hist>>

RenameHas(h) ==
    /\ pc[h] = "rename_has"
    /\ Free
    /\ IF has_code(loc[h].new) THEN Reply(h, MSG_EXISTS)
       ELSE IF ~may_change(heap[loc[h].entry], loc[h].uid) THEN Reply(h, MSG_ONLY_OWNER)
       ELSE Goto(h, "rename_code") /\ UNCHANGED loc
    /\ UNCHANGED <<db, lock, clock, rate_buckets, storage, archived, sw, ncmds, hist>>

\* rename_code takes the lock, tests, and pops the old key ...
RenameCode(h) ==
    /\ pc[h] = "rename_code"
    /\ Free
    /\ IF rename_allowed(loc[h].code, loc[h].new)
       THEN /\ codes' = Del(codes, loc[h].code)
            /\ loc' = [loc EXCEPT ![h].popped = Get(codes, loc[h].code)]
            /\ lock' = h
            /\ Goto(h, "rename_store")
       ELSE /\ Reply(h, MSG_NOT_RENAMED)
            /\ UNCHANGED <<codes, lock>>
    /\ UNCHANGED <<heap, users, disk, clock, rate_buckets, storage, archived, sw, ncmds, hist>>

\* a rename_code that returns without releasing the lock
RenameStore_keeps_lock(h) ==
    /\ pc[h] = "rename_store"
    /\ lock = h
    /\ codes' = Put(codes, loc[h].new, loc[h].popped)
    /\ UNCHANGED <<heap, users, lock>>
    /\ _save
    /\ Reply(h, MSG_RENAMED)
    /\ UNCHANGED <<clock, rate_buckets, storage, archived, sw, ncmds, hist>>
\* ... then stores the popped dict under the new key, saves and releases.
RenameStore(h) ==
    /\ pc[h] = "rename_store"
    /\ lock = h
    /\ codes' = Put(codes, loc[h].new, loc[h].popped)
    /\ UNCHANGED <<heap, users>>
    /\ _save
    /\ lock' = 0
    /\ Reply(h, MSG_RENAMED)
    /\ UNCHANGED <<clock, rate_buckets, storage, archived, sw, ncmds, hist>>

\* ---- on_expire (bot.py:264)
ExpireGet(h) ==
    /\ pc[h] = "expire_get"
    /\ Free
    /\ IF get_code(loc[h].code) = NoEntry THEN Reply(h, MSG_NOT_FOUND)
       ELSE IF ~may_change(heap[get_code(loc[h].code)], loc[h].uid) THEN Reply(h, MSG_ONLY_OWNER)
       ELSE /\ loc' = [loc EXCEPT ![h].entry = get_code(loc[h].code),
                                  ![h].dt = parse_expiry(loc[h].val, now)]
            /\ Goto(h, IF parse_expiry(loc[h].val, now) = DELETE
                       THEN "expire_delete_message" ELSE "expire_update")
    /\ UNCHANGED <<db, lock, clock, rate_buckets, storage, archived, sw, ncmds, hist>>

\* bot.delete_message on the storage chat: it deletes or raises; either way
\* the caller goes on.
delete_message(smid) == storage' = storage \ {smid} \/ storage' = storage

ExpireDeleteMessage(h) ==
    /\ pc[h] = "expire_delete_message"
    /\ delete_message(heap[loc[h].entry].storage_message_id)
    /\ Goto(h, "expire_delete_code")
    /\ UNCHANGED <<db, lock, clock, rate_buckets, archived, loc, sw, ncmds, hist>>

ExpireDeleteCode(h) ==
    /\ pc[h] = "expire_delete_code"
    /\ Free
    /\ delete_code(loc[h].code)
    /\ Reply(h, MSG_DELETED)
    /\ UNCHANGED <<lock, clock, rate_buckets, storage, archived, sw, ncmds, hist>>

ExpireUpdate(h) ==
    /\ pc[h] = "expire_update"
    /\ Free
    /\ update_code(loc[h].code, "expires_at", loc[h].dt)
    /\ Reply(h, MSG_EXPIRY_SET)
    /\ UNCHANGED <<lock, clock, rate_buckets, storage, archived, sw, ncmds, hist>>

\* ---- inc_upload and inc_retrieved (database.py:143, 150), statement by
\* statement: what the other threads can do in between is decided by the lock.
\* a lock that keeps nobody out
Acquire_unguarded(h) == TRUE
\* with self._lock: the RLock is free or already held by this thread
Acquire(h) == lock \in {0, h}
CounterOf(cmd) == IF cmd = "db.inc_upload" THEN "uploads" ELSE "retrieved"
IncEnter(h) ==
    /\ pc[h] = "inc_enter"
    /\ Acquire(h)
    /\ lock' = h
    /\ Goto(h, "inc_ensure")
    /\ UNCHANGED <<db, clock, rate_buckets, storage, archived, loc, sw, ncmds, hist>>
\* self.ensure_user(user_id): creates and saves the record when there is none
IncEnsure(h) ==
    /\ pc[h] = "inc_ensure"
    /\ users' = ensure_user(users, loc[h].uid)
    /\ disk' = IF users' # users THEN Dump(codes, heap, users') ELSE disk
    /\ Goto(h, "inc_read")
    /\ UNCHANGED <<codes, heap, lock, clock, rate_buckets, storage, archived, loc, sw, ncmds, hist>>
\* self.data["users"][uid][counter] += by: the read ...
IncRead(h) ==
    /\ pc[h] = "inc_read"
    /\ loc' = [loc EXCEPT ![h].n = Get(users, StrOf(loc[h].uid))[CounterOf(loc[h].cmd)]]
    /\ Goto(h, "inc_write")
    /\ UNCHANGED <<db, lock, clock, rate_buckets, storage, archived, sw, ncmds, hist>>
\* ... and the write
IncWrite(h) ==
    /\ pc[h] = "inc_write"
    /\ users' = [users EXCEPT ![IndexOf(users, StrOf(loc[h].uid))][2][CounterOf(loc[h].cmd)] =
                                  loc[h].n + 1]
    /\ Goto(h, "inc_save")
    /\ UNCHANGED <<codes, heap, disk, lock, clock, rate_buckets, storage, archived, loc, sw,
                   ncmds, hist>>
\* self._save(), then the lock is released and the call returns
IncSave(h) ==
    /\ pc[h] = "inc_save"
    /\ disk' = Dump(codes, heap, users)
    /\ lock' = 0
    /\ hist' = Append(hist, <<loc[h].uid, CounterOf(loc[h].cmd)>>)
    /\ Reply(h, "")
    /\ UNCHANGED <<codes, heap, users, clock, rate_buckets, storage, archived, sw, ncmds>>
Increment(h) == IncEnter(h) \/ IncEnsure(h) \/ IncRead(h) \/ IncWrite(h) \/ IncSave(h)

\* ---- on_delete_user (bot.py:331)
DeleteUser(h) ==
    /\ pc[h] = "delete_user"
    /\ IF ~is_admin(loc[h].uid) THEN Reply(h, "") /\ UNCHANGED db
       ELSE IF loc[h].val = None THEN Reply(h, MSG_USAGE_DELETE_USER) /\ UNCHANGED db
       ELSE IF ~IntOk(loc[h].val) THEN Reply(h, MSG_INVALID_USER) /\ UNCHANGED db
       ELSE /\ Free
            /\ delete_user(IntOf(loc[h].val))
            /\ Reply(h, MSG_USER_DELETED)
    /\ UNCHANGED <<lock, clock, rate_buckets, storage, archived, sw, ncmds, hist>>

\* ---- expiry_worker (bot.py:486)
SwGoto(label) == sw' = [sw EXCEPT !.pc = label]
SwNext == sw' = [sw EXCEPT !.pc = "fetch", !.todo = Tail(@), !.code = None, !.entry = NoEntry]

\* codes = list(db.data.get('codes', {}).keys()): read without the lock
SwSnapshot ==
    /\ sw.pc = "sleep"
    /\ now >= sw.wake
    /\ sw' = [sw EXCEPT !.pc = "fetch", !.todo = Keys(codes)]
    /\ UNCHANGED <<db, lock, clock, rate_buckets, storage, archived, pc, loc, ncmds, hist>>

SwFetch ==
    /\ sw.pc = "fetch"
    /\ IF sw.todo = <<>>
       THEN sw' = [sw EXCEPT !.pc = "sleep", !.wake = now + EXPIRE_CHECK_INTERVAL_SEC]
       ELSE /\ Free
            /\ IF get_code(Head(sw.todo)) = NoEntry THEN SwNext
               ELSE sw' = [sw EXCEPT !.pc = "is_expired", !.code = Head(sw.todo),
                                     !.entry = get_code(Head(sw.todo))]
    /\ UNCHANGED <<db, lock, clock, rate_buckets, storage, archived, pc, loc, ncmds, hist>>

\* a worker that passes over the entries it finds expired
SwIsExpired_passes_over ==
    /\ sw.pc = "is_expired"
    /\ SwNext
    /\ UNCHANGED <<db, lock, clock, rate_buckets, storage, archived, pc, loc, ncmds, hist>>
SwIsExpired ==
    /\ sw.pc = "is_expired"
    /\ IF is_expired(heap[sw.entry], now) THEN SwGoto("delete_message") ELSE SwNext
    /\ UNCHANGED <<db, lock, clock, rate_buckets, storage, archived, pc, loc, ncmds, hist>>

SwDeleteMessage ==
    /\ sw.pc = "delete_message"
    /\ delete_message(heap[sw.entry].storage_message_id)
    /\ SwGoto("delete_code")
    /\ UNCHANGED <<db, lock, clock, rate_buckets, archived, pc, loc, ncmds, hist>>

SwDeleteCode ==
    /\ sw.pc = "delete_code"
    /\ Free
    /\ delete_code(sw.code)
    /\ SwNext
    /\ UNCHANGED <<lock, clock, rate_buckets, storage, archived, pc, loc, ncmds, hist>>

Sweeper == SwSnapshot \/ SwFetch \/ SwIsExpired \/ SwDeleteMessage \/ SwDeleteCode

\* time.sleep(EXPIRE_CHECK_INTERVAL_SEC) returns: the clock has reached the
\* time to wake. The clock's last instant, Horizon, stands for all later time.
Horizon == MaxSleeps * EXPIRE_CHECK_INTERVAL_SEC
SwSleep ==
    /\ sw.pc = "sleep"
    /\ now < sw.wake
    /\ IF sw.wake <= Horizon
       THEN clock' = sw.wake /\ UNCHANGED sw
       ELSE clock' = Horizon /\ sw' = [sw EXCEPT !.wake = Horizon]
    /\ UNCHANGED <<db, lock, rate_buckets, storage, archived, pc, loc, ncmds, hist>>
\* except Exception: something in the sweep raised; the rest of the sweep is
\* dropped and the worker goes to sleep. hist notes where it raised.
SwRaise ==
    /\ sw.pc \in {"fetch", "is_expired", "delete_code"}
    /\ Len(hist) < MaxErrors
    /\ hist' = Append(hist, sw.pc)
    /\ sw' = [Sw0 EXCEPT !.wake = now + EXPIRE_CHECK_INTERVAL_SEC]
    /\ UNCHANGED <<db, lock, clock, rate_buckets, storage, archived, pc, loc, ncmds>>

\* ---- on_storage_clean (bot.py:347): the sweep of the expiry worker, run
\* once by a worker thread for an admin.
\* codes_snapshot = list(db.data.get('codes', {}).keys()): read without the lock
CleanSnapshot(h) ==
    /\ pc[h] = "clean_snapshot"
    /\ IF ~is_admin(loc[h].uid) THEN Reply(h, "")
       ELSE /\ loc' = [loc EXCEPT ![h].todo = Keys(codes), ![h].n = 0]
            /\ Goto(h, "clean_fetch")
    /\ UNCHANGED <<db, lock, clock, rate_buckets, storage, archived, sw, ncmds, hist>>

\* for code in codes_snapshot: entry = db.get_code(code)
CleanFetch(h) ==
    /\ pc[h] = "clean_fetch"
    /\ IF loc[h].todo = <<>> THEN Reply(h, MSG_CLEANED(loc[h].n))
       ELSE /\ Free
            /\ IF get_code(Head(loc[h].todo)) = NoEntry
               THEN loc' = [loc EXCEPT ![h].todo = Tail(@)] /\ UNCHANGED pc
               ELSE /\ loc' = [loc EXCEPT ![h].code = Head(loc[h].todo),
                                          ![h].entry = get_code(Head(loc[h].todo))]
                    /\ Goto(h, "clean_is_expired")
    /\ UNCHANGED <<db, lock, clock, rate_buckets, storage, archived, sw, ncmds, hist>>

CleanIsExpired(h) ==
    /\ pc[h] = "clean_is_expired"
    /\ IF is_expired(heap[loc[h].entry], now)
       THEN Goto(h, "clean_delete_message") /\ UNCHANGED loc
       ELSE loc' = [loc EXCEPT ![h].todo = Tail(@)] /\ Goto(h, "clean_fetch")
    /\ UNCHANGED <<db, lock, clock, rate_buckets, storage, archived, sw, ncmds, hist>>

CleanDeleteMessage(h) ==
    /\ pc[h] = "clean_delete_message"
    /\ delete_message(heap[loc[h].entry].storage_message_id)
    /\ Goto(h, "clean_delete_code")
    /\ UNCHANGED <<db, lock, clock, rate_buckets, archived, loc, sw, ncmds, hist>>

\* db.delete_code(code); removed += 1
CleanDeleteCode(h) ==
    /\ pc[h] = "clean_delete_code"
    /\ Free
    /\ delete_code(loc[h].code)
    /\ loc' = [loc EXCEPT ![h].todo = Tail(@), ![h].n = @ + 1]
    /\ Goto(h, "clean_fetch")
    /\ UNCHANGED <<lock, clock, rate_buckets, storage, archived, sw, ncmds, hist>>

StorageClean(h) ==
    \/ CleanSnapshot(h) \/ CleanFetch(h) \/ CleanIsExpired(h)
    \/ CleanDeleteMessage(h) \/ CleanDeleteCode(h)

Upload(h) == CheckRateLimit(h) \/ Archive(h) \/ GenCode(h) \/ PutCode(h) \/ IncUpload(h)
Retrieval(h) ==
    \/ Lookup(h) \/ ExpiryCheck(h) \/ LockCheck(h)
    \/ SendPrimary(h) \/ SendFallback(h) \/ IncRetrieved(h)
LockCmd(h) == LockGet(h) \/ LockUpdate(h)
RenameCmd(h) == RenameGet(h) \/ RenameHas(h) \/ RenameCode(h) \/ RenameStore(h)
ExpireCmd(h) ==
    \/ ExpireGet(h) \/ ExpireDeleteMessage(h) \/ ExpireDeleteCode(h) \/ ExpireUpdate(h)
Handler(h) == Upload(h) \/ Retrieval(h) \/ LockCmd(h) \/ RenameCmd(h) \/ ExpireCmd(h)

\* ------------------------------------------------------- specifications
\* Both worker threads serve uploads and renames, and callers of
\* Database.rename_code, while the expiry worker sweeps; nothing expires, so
\* the worker's deletion steps are never enabled.
RegistryMsgs ==
    { m \in UploadMsgs : m.uid # NoUser }
    \cup { m \in RenameMsgs : m.new \in gen_code(CODE_LENGTH) }
    \cup { m \in RenameCalls : m.code \in gen_code(CODE_LENGTH) }
Next ==
    \/ \E h \in Handlers : Dispatch(h, RegistryMsgs, MaxCmds)
    \/ \E h \in Handlers : Upload(h) \/ RenameCmd(h)
    \/ SwSnapshot \/ SwFetch \/ SwIsExpired
Spec == Init /\ [][Next]_vars

\* One worker thread serves uploads, retrievals, locks and expiry settings
\* while the expiry worker sweeps.  The clock stands still: "0" expires an
\* entry at once.
ServeMsgs ==
    { m \in UploadMsgs : m.uid # NoUser } \cup GetMsgs \cup LockMsgs
    \cup { m \in ExpireMsgs : m.val # <<"1", "h">> }
NextServe ==
    \/ Dispatch(1, ServeMsgs, MaxServed)
    \/ Upload(1) \/ Retrieval(1) \/ LockCmd(1) \/ ExpireCmd(1)
    \/ Sweeper
SpecServe == Init /\ [][NextServe]_vars

\* One worker thread serves uploads, renames and expiry settings while the
\* expiry worker sweeps.
SweepMsgs ==
    { m \in UploadMsgs : m.uid # NoUser } \cup RenameMsgs
    \cup { m \in ExpireMsgs : m.val # <<"1", "h">> }
NextSweep ==
    \/ Dispatch(1, SweepMsgs, MaxCmds)
    \/ Upload(1) \/ RenameCmd(1) \/ ExpireCmd(1)
    \/ Sweeper
SpecSweep == Init /\ [][NextSweep]_vars

\* One worker thread serves the owner's uploads and `/expire CODE 1h` and
\* another user's retrievals, both for the one code ClockCode, while time
\* passes and the expiry worker sweeps.
ClockCode == [i \in 1..CODE_LENGTH |-> "a"]
ClockMsgs ==
    { m \in UploadMsgs : m.uid = OWNER_ID }
    \cup { m \in GetMsgs : m.uid = 2 /\ m.code = ClockCode }
    \cup { m \in ExpireMsgs : m.uid = OWNER_ID /\ m.val = <<"1", "h">> /\ m.code = ClockCode }
NextClock ==
    \/ Dispatch(1, ClockMsgs, MaxCmds)
    \/ Upload(1) \/ Retrieval(1) \/ ExpireGet(1) \/ ExpireUpdate(1)
    \/ Sweeper
    \/ Tick
SpecClock == Init /\ [][NextClock]_vars

\* The rate limiter alone: upload attempts at any second, by one user as
\* often as the bound allows and by the owner at most once among them.
RateAttempt(u) ==
    /\ Len(hist) < MaxAttempts
    /\ u = OWNER_ID => \A i \in 1..Len(hist) : hist[i][1] # OWNER_ID
    /\ rate_buckets' = [rate_buckets EXCEPT ![u] = rate_after(@, now)]
    /\ hist' = Append(hist, <<u, now, rate_accepts(rate_buckets[u], now)>>)
    /\ UNCHANGED <<db, lock, clock, storage, archived, pc, loc, sw, ncmds>>
NextRate ==
    \/ \E u \in Users : RateAttempt(u)
    \/ AdvanceClock(0..MaxSeconds)
SpecRate == Init /\ [][NextRate]_vars

\* One worker thread serves the owner's uploads and `/expire`, with durations
\* that parse_expiry cannot read among the values.
\* One worker thread serves uploads, retrievals and /delete_user.
StatsMsgs ==
    { m \in UploadMsgs : m.uid # NoUser } \cup GetMsgs \cup DeleteUserMsgs
NextStats ==
    \/ Dispatch(1, StatsMsgs, MaxServed)
    \/ Upload(1) \/ Retrieval(1) \/ DeleteUser(1)
SpecStats == Init /\ [][NextStats]_vars

\* The queries applied to registries of three entries that differ in kind,
\* uploader, upload time and caption.
PHOTO == <<"p", "h", "o", "t", "o">>
QueryCodes ==
    << [i \in 1..CODE_LENGTH |-> "a"],
       [i \in 1..CODE_LENGTH |-> IF i % 2 = 1 THEN "a" ELSE "7"],
       [i \in 1..CODE_LENGTH |-> "7"] >>
QueryEntry(ft, up, t, cap) ==
    LET mime == IF ft = DOCUMENT THEN <<"t", "e", "x", "t">> ELSE None IN
    LET name == IF ft = DOCUMENT THEN <<"n", "e", "t">> ELSE None IN
    [file_id |-> "f1", file_type |-> ft, uploader |-> up, uploaded_at |-> now_str(t),
     expires_at |-> None, storage_message_id |-> 1,
     category |-> detect_category(ft, mime, name), locked_to |-> 0,
     file_name |-> name, caption |-> cap, mime_type |-> mime]
QueryEntries ==
    { QueryEntry(ft, up, t, cap) :
        ft \in {DOCUMENT, PHOTO}, up \in Users, t \in {0, 2 * MINUTE},
        cap \in {None, <<"R", "e", "d">>} }
Keywords ==
    { <<"R", "E", "D">>, <<"N", "e", "t">>, <<"M", "E", "N", "T">>, <<"a", "7">>,
      <<"t", "n">>, <<"t", " ", "n">>, <<"v", "v", "v">> }
Limits == {1, 2, DEFAULT_LIMIT}
InitQuery ==
    /\ \E e1, e2 \in QueryEntries : \E e3 \in { QueryEntry(DOCUMENT, 2, t, None) : t \in {0, 2 * MINUTE} } :
        /\ heap = <<e1, e2, e3>>
        /\ codes = [i \in 1..3 |-> <<QueryCodes[i], i>>]
        /\ disk = Dump(codes, heap, <<>>)
    /\ users = <<>>
    /\ lock = 0
    /\ clock = 2 * MINUTE
    /\ rate_buckets = [u \in Users \cup {NoUser} |-> <<>>]
    /\ storage = {1}
    /\ archived = 1
    /\ pc = [h \in Handlers |-> "idle"]
    /\ loc = [h \in Handlers |-> Loc0]
    /\ sw = Sw0
    /\ ncmds = 0
    /\ hist = <<>>
Answered(call, arg, limit, result) ==
    /\ Free
    /\ hist' = << [call |-> call, arg |-> arg, limit |-> limit, result |-> result] >>
    /\ UNCHANGED <<db, lock, clock, rate_buckets, storage, archived, pc, loc, sw, ncmds>>
SearchCall ==
    \E q \in Keywords : Answered("search_codes", q, DEFAULT_LIMIT, search_codes(q, DEFAULT_LIMIT))
ListByCategoryCall ==
    \E c \in {"Documents", "Images", "Zip"} : \E n \in Limits :
        Answered("list_by_category", c, n, list_by_category(c, n))
ListByUserCall ==
    \E u \in Users : \E n \in Limits :
        Answered("list_by_user", u, n, list_by_user(u, n))
NextQuery == SearchCall \/ ListByCategoryCall \/ ListByUserCall
SpecQuery == InitQuery /\ [][NextQuery]_vars

\* Both worker threads run check_rate_limit for uploads that arrive together,
\* at the start and just after a window has passed.
RaceMsgs == { [Loc0 EXCEPT !.cmd = "check_rate_limit", !.uid = u] : u \in Users }
RaceInstants == {0, RATE_LIMIT_WINDOW_SEC + 1}
NextRace ==
    \/ \E h \in Handlers : Dispatch(h, RaceMsgs, MaxAttempts) \/ RateLimit(h)
    \/ AdvanceClock(RaceInstants)
SpecRace == Init /\ [][NextRace]_vars

\* The expiry worker, scheduled fairly, sweeps for ever over a registry of
\* two entries while one worker thread serves the owner's `/expire` commands:
\* `0` and `never` for the first entry, `1m` for the second; a sweep may raise.
LiveCodes == <<ClockCode, [i \in 1..CODE_LENGTH |-> "7"]>>
LiveMsgs ==
    { [Loc0 EXCEPT !.cmd = "expire", !.uid = OWNER_ID, !.code = LiveCodes[1], !.val = v] :
        v \in { <<"0">>, <<"n", "e", "v", "e", "r">> } }
    \cup { [Loc0 EXCEPT !.cmd = "expire", !.uid = OWNER_ID, !.code = LiveCodes[2],
                        !.val = <<"1", "m">>] }
InitLive ==
    /\ heap = [i \in 1..Len(LiveCodes) |->
                 [file_id |-> "f1", file_type |-> DOCUMENT, uploader |-> OWNER_ID,
                  uploaded_at |-> now_str(0), expires_at |-> None,
                  storage_message_id |-> i,
                  category |-> detect_category(DOCUMENT, None, None), locked_to |-> 0,
                  file_name |-> None, caption |-> None, mime_type |-> None]]
    /\ codes = [i \in 1..Len(LiveCodes) |-> <<LiveCodes[i], i>>]
    /\ users = << <<StrOf(OWNER_ID), [uploads |-> Len(LiveCodes), retrieved |-> 0]>> >>
    /\ disk = Dump(codes, heap, users)
    /\ lock = 0
    /\ clock = 0
    /\ rate_buckets = [u \in Users \cup {NoUser} |->
                         IF u = OWNER_ID THEN [i \in 1..Len(LiveCodes) |-> 0] ELSE <<>>]
    /\ storage = 1..Len(LiveCodes)
    /\ archived = Len(LiveCodes)
    /\ pc = [h \in Handlers |-> "idle"]
    /\ loc = [h \in Handlers |-> Loc0]
    /\ sw = Sw0
    /\ ncmds = 0
    /\ hist = <<>>
NextLive ==
    \/ Dispatch(1, LiveMsgs, MaxExpires)
    \/ ExpireGet(1) \/ ExpireUpdate(1)
    \/ Sweeper \/ SwSleep \/ SwRaise
SpecLive == InitLive /\ [][NextLive]_vars /\ WF_vars(Sweeper \/ SwSleep)

\* One worker thread serves every kind of message that reaches the registry,
\* the commands naming the code ClockCode, while the expiry worker sweeps.
CounterMsgs ==
    { m \in UploadMsgs : m.uid # NoUser }
    \cup { m \in GetMsgs \cup LockMsgs : m.code = ClockCode }
    \cup { m \in RenameMsgs : m.uid = OWNER_ID /\ m.code = ClockCode /\ m.new = LiveCodes[2] }
    \cup { m \in ExpireMsgs : m.uid = OWNER_ID /\ m.code = ClockCode /\ m.val # <<"1", "h">> }
    \cup { m \in DeleteUserMsgs : m.uid = OWNER_ID /\ m.val \in { <<"1">>, <<"2">> } }
NextCounters ==
    \/ Dispatch(1, CounterMsgs, MaxCmds)
    \/ Upload(1) \/ Retrieval(1) \/ LockCmd(1) \/ RenameCmd(1) \/ ExpireCmd(1)
    \/ DeleteUser(1)
    \/ Sweeper
SpecCounters == Init /\ [][NextCounters]_vars

\* Both worker threads call inc_upload and inc_retrieved for either user.
IncMsgs ==
    { [Loc0 EXCEPT !.cmd = c, !.uid = u] :
        c \in {"db.inc_upload", "db.inc_retrieved"}, u \in Users }
NextInc == \E h \in Handlers : Dispatch(h, IncMsgs, MaxServed) \/ Increment(h)
SpecInc == Init /\ [][NextInc]_vars

\* Both worker threads call every mutator of the registry, the commands naming
\* the code ClockCode, while the expiry worker sweeps.
FlushMsgs ==
    { m \in UploadMsgs : m.uid = OWNER_ID }
    \cup { m \in LockMsgs : m.uid = OWNER_ID /\ m.code = ClockCode }
    \cup { m \in ExpireMsgs : /\ m.uid = OWNER_ID /\ m.code = ClockCode
                               /\ m.val \in { <<"0">>, <<"d", "e", "l", "e", "t", "e">> } }
    \cup { m \in RenameCalls : m.code = ClockCode /\ m.new = LiveCodes[2] }
    \cup { m \in IncMsgs : m.uid = 2 }
    \cup { m \in DeleteUserMsgs : m.uid = OWNER_ID /\ m.val = <<"2">> }
NextFlush ==
    \/ \E h \in Handlers :
          \/ Dispatch(h, FlushMsgs, MaxCmds)
          \/ Upload(h) \/ LockCmd(h) \/ ExpireCmd(h)
          \/ RenameCode(h) \/ RenameStore(h)
          \/ Increment(h) \/ DeleteUser(h)
    \/ Sweeper
SpecFlush == Init /\ [][NextFlush]_vars

\* Both worker threads serve the admin's `/storage_clean`, `/expire` (`0` and
\* `never`) and `/rename_code ... Q` for the first of two stored entries, and the
\* `/storage_clean` of a user who is no admin, while the expiry worker sweeps.
CleanMsgs ==
    StorageCleanMsgs
    \cup { m \in ExpireMsgs : /\ m.uid = OWNER_ID /\ m.code = ClockCode
                               /\ m.val \in { <<"0">>, <<"n", "e", "v", "e", "r">> } }
    \cup { m \in RenameMsgs : m.uid = OWNER_ID /\ m.code = ClockCode /\ m.new = <<"Q">> }
NextClean ==
    \/ \E h \in Handlers :
          \/ Dispatch(h, CleanMsgs, MaxCmds)
          \/ StorageClean(h)
          \/ ExpireGet(h) \/ ExpireUpdate(h)
          \/ RenameCmd(h)
    \/ Sweeper
SpecClean == InitLive /\ [][NextClean]_vars

\* Both worker threads serve the handlers that call the transport (uploads,
\* retrievals, `/expire`, `/storage_clean`) and callers of the registry's
\* operations that hold the lock over several statements, while the expiry
\* worker sweeps.
TransportMsgs ==
    { m \in UploadMsgs : m.uid = OWNER_ID }
    \cup { m \in GetMsgs : m.uid = 2 /\ m.code = ClockCode }
    \cup { m \in ExpireMsgs : /\ m.uid = OWNER_ID /\ m.code = ClockCode
                               /\ m.val \in { <<"0">>, <<"d", "e", "l", "e", "t", "e">> } }
    \cup { m \in StorageCleanMsgs : m.uid = OWNER_ID }
    \cup { m \in RenameCalls : m.code = ClockCode /\ m.new = <<"Q">> }
    \cup { m \in IncMsgs : m.uid = 2 /\ m.cmd = "db.inc_upload" }
NextTransport ==
    \/ \E h \in Handlers :
          \/ Dispatch(h, TransportMsgs, MaxCmds)
          \/ Upload(h) \/ Retrieval(h) \/ ExpireCmd(h) \/ StorageClean(h)
          \/ RenameCode(h) \/ RenameStore(h) \/ Increment(h)
    \/ Sweeper
SpecTransport == Init /\ [][NextTransport]_vars

\* Both worker threads call save_file_entry for files archived after the two
\* that are stored, and serve the owner's `/expire` for the first entry, with
\* every code that gen_code draws in use at the start.  The threads are
\* scheduled fairly, and a draw that can give a free code eventually does.
SaveCalls ==
    { [Loc0 EXCEPT !.cmd = "save_file_entry", !.uid = u, !.file = f,
                   !.smid = Len(LiveCodes) + 1] : u \in Users, f \in Incoming }
FullMsgs ==
    SaveCalls
    \cup { m \in ExpireMsgs : /\ m.uid = OWNER_ID /\ m.code = ClockCode
                               /\ m.val \in { <<"n", "e", "v", "e", "r">>,
                                              <<"d", "e", "l", "e", "t", "e">> } }
SaveFileEntry(h) == GenCode(h) \/ PutCode(h) \/ IncUpload(h)
NextFull ==
    \E h \in Handlers :
        \/ Dispatch(h, FullMsgs, MaxCmds)
        \/ SaveFileEntry(h)
        \/ ExpireCmd(h)
SpecFull ==
    /\ InitLive /\ [][NextFull]_vars
    /\ \A h \in Handlers : WF_vars(SaveFileEntry(h)) /\ WF_vars(ExpireCmd(h))

\* Both worker threads serve the uploads of the two users and the commands
\* of user 2, who is no admin, on the code ClockCode: `/lock_code`,
\* `/rename_code ... Q` and `/expire` with `0` and `delete`.
OwnerMsgs ==
    { m \in UploadMsgs : m.uid # NoUser }
    \cup { m \in LockMsgs : m.uid = 2 /\ m.code = ClockCode }
    \cup { m \in RenameMsgs : m.uid = 2 /\ m.code = ClockCode /\ m.new = <<"Q">> }
    \cup { m \in ExpireMsgs : /\ m.uid = 2 /\ m.code = ClockCode
                               /\ m.val \in { <<"0">>, <<"d", "e", "l", "e", "t", "e">> } }
NextOwner ==
    \E h \in Handlers :
        \/ Dispatch(h, OwnerMsgs, MaxServed)
        \/ Upload(h) \/ LockCmd(h) \/ RenameCmd(h) \/ ExpireCmd(h)
SpecOwner == Init /\ [][NextOwner]_vars

UnreadableValues ==
    { <<"x">>, <<"x", "h">>, <<"1", ".", "5", "h">>, <<"d">>, <<"1", "H", "r">>, <<"h">> }
UnreadableMsgs ==
    { m \in UploadMsgs : m.uid = OWNER_ID }
    \cup { [Loc0 EXCEPT !.cmd = "expire", !.uid = OWNER_ID, !.code = ClockCode, !.val = v] :
             v \in UnreadableValues \cup { <<"1", "h">>, <<"N", "e", "v", "e", "r">> } }
NextUnreadable ==
    \/ Dispatch(1, UnreadableMsgs, MaxCmds)
    \/ Upload(1) \/ ExpireGet(1) \/ ExpireUpdate(1)
SpecUnreadable == Init /\ [][NextUnreadable]_vars

\* Database.is_expired alone: one stored entry, with any of the expiry stamps,
\* is tested again and again while time passes; hist keeps the last two tests
\* as <<time, result>>.
ExpiryInstants == (0..MaxSeconds) \cup {HOUR - 1, HOUR, DAY, DAY + MINUTE}
ExpiryStamps == {None} \cup { strftime(t) : t \in ExpiryInstants }
StoredEntry(exp) ==
    [file_id |-> "f1", file_type |-> DOCUMENT, uploader |-> OWNER_ID,
     uploaded_at |-> now_str(0), expires_at |-> exp, storage_message_id |-> 1,
     category |-> detect_category(DOCUMENT, None, None), locked_to |-> 0,
     file_name |-> None, caption |-> None, mime_type |-> None]
LastTwo(h) == IF Len(h) > 2 THEN Tail(h) ELSE h
InitExpiry ==
    /\ \E exp \in ExpiryStamps :
        /\ heap = <<StoredEntry(exp)>>
        /\ codes = << <<ClockCode, 1>> >>
        /\ disk = Dump(codes, heap, <<>>)
    /\ users = <<>>
    /\ lock = 0
    /\ clock = 0
    /\ rate_buckets = [u \in Users \cup {NoUser} |-> <<>>]
    /\ storage = {1}
    /\ archived = 1
    /\ pc = [h \in Handlers |-> "idle"]
    /\ loc = [h \in Handlers |-> Loc0]
    /\ sw = Sw0
    /\ ncmds = 0
    /\ hist = <<>>
IsExpiredCall ==
    /\ hist' = LastTwo(Append(hist, <<now, is_expired(heap[get_code(ClockCode)], now)>>))
    /\ UNCHANGED <<db, lock, clock, rate_buckets, storage, archived, pc, loc, sw, ncmds>>
NextExpiry == IsExpiredCall \/ AdvanceClock(ExpiryInstants)
SpecExpiry == InitExpiry /\ [][NextExpiry]_vars

\* ------------------------------------------------------------------ claims
\* The thread h takes a step of its own from the place `label`.
Leaves(h, label) == pc[h] = label /\ (pc'[h] # label \/ loc'[h] # loc[h])

\* C1: any two uploads, sequential or concurrent, are assigned different
\* codes: when save_file_entry stores its entry with put_code, no live entry
\* is under that code, so no upload overwrites an entry of another upload.
C1_UploadNeverOverwrites ==
    [][\A h \in Handlers : Leaves(h, "put_code") => ~Has(codes, loc[h].code)]_vars

\* C2: rename_code(old, new) returns True exactly when, at the call, old is
\* present and new is absent; otherwise (old absent, new present, old = new)
\* it returns False and codes, users and the persisted file are unchanged.
C2_RenameReturn ==
    [][\A h \in Handlers :
        /\ Leaves(h, "rename_code") =>
             LET present == \E i \in 1..Len(codes) : codes[i][1] = loc[h].code
                 taken == \E i \in 1..Len(codes) : codes[i][1] = loc[h].new
             IN  IF present /\ ~taken
                 THEN pc'[h] = "rename_store"
                 ELSE /\ pc'[h] = "done"
                      /\ loc'[h].out = MSG_NOT_RENAMED
                      /\ codes' = codes /\ heap' = heap /\ users' = users /\ disk' = disk
        /\ Leaves(h, "rename_store") => pc'[h] = "done" /\ loc'[h].out = MSG_RENAMED]_vars
\* one call has returned True and another, made after it, False
C2_Witness ==
    \E h, g \in Handlers :
        /\ pc[h] = "done" /\ loc[h].cmd = "db.rename_code" /\ loc[h].out = MSG_RENAMED
        /\ pc[g] = "done" /\ loc[g].cmd = "db.rename_code" /\ loc[g].out = MSG_NOT_RENAMED
        /\ Len(codes) = 1

\* C3: after a successful rename_code(old, new) the entry that was under old
\* is under new, old is absent, the number of entries and every other entry
\* are as before the call, and nothing running concurrently reads the
\* registry while the entry is under neither key (or under both).
C3_RenameAtomic ==
    [][/\ \A h \in Handlers :
           Leaves(h, "rename_store") =>
             /\ \E i \in 1..Len(codes') : codes'[i] = <<loc[h].new, loc[h].popped>>
             /\ \A i \in 1..Len(codes') : codes'[i][1] # loc[h].code
             /\ Len(codes') = Len(codes) + 1
             /\ \A i \in 1..Len(codes) : codes[i] = codes'[i]
             /\ heap' = heap
       /\ \A h \in Handlers :
           Leaves(h, "rename_code") /\ pc'[h] = "rename_store" =>
             /\ Len(codes') = Len(codes) - 1
             /\ \A i \in 1..Len(codes) :
                  codes[i][1] # loc[h].code => \E j \in 1..Len(codes') : codes'[j] = codes[i]
             /\ \E i \in 1..Len(codes) : codes[i] = <<loc[h].code, loc'[h].popped>>
       /\ (sw.pc = "sleep" /\ sw'.pc # "sleep") =>
             \A h \in Handlers : pc[h] # "rename_store"]_vars

\* ---- retrieval (C4 - C7)
SEND_EVENTS == {"Primary:ok", "Primary:failed", "Fallback:ok", "Fallback:failed"}
Events(trace) == { trace[i] : i \in 1..Len(trace) }
NoDelivery(trace) == Events(trace) \cap SEND_EVENTS = {}
RegistryKept == codes' = codes /\ heap' = heap /\ users' = users /\ disk' = disk
\* what the requester of an absent code gets
NotFoundOutcome(h) ==
    /\ pc'[h] = "done"
    /\ loc'[h].out = MSG_NOT_FOUND
    /\ NoDelivery(loc'[h].trace)
    /\ RegistryKept

\* C4: a retrieval of a code whose entry is expired ends exactly as the
\* retrieval of an absent code: reply "not found", no delivery attempted, no
\* counter changed, whoever asks, whatever the lock on the entry, and whether
\* or not the sweeper has removed the entry.
C4_ExpiredAsAbsent ==
    [][\A h \in Handlers :
        /\ (Leaves(h, "Lookup") /\ \A i \in 1..Len(codes) : codes[i][1] # loc[h].code)
             => NotFoundOutcome(h)
        /\ (/\ Leaves(h, "ExpiryCheck")
            /\ heap[loc[h].entry].expires_at # None
            /\ strptime(heap[loc[h].entry].expires_at) <= clock)
             => NotFoundOutcome(h)]_vars
\* an entry that is expired, locked and still in the registry was asked for
C4_Witness ==
    \E h \in Handlers :
        /\ pc[h] = "done" /\ loc[h].cmd = "get" /\ loc[h].out = MSG_NOT_FOUND
        /\ loc[h].trace = <<"Lookup", "ExpiryCheck">>
        /\ \E i \in 1..Len(codes) :
             heap[codes[i][2]].locked_to # 0 /\ heap[codes[i][2]].expires_at # None

\* C5: for a present, unexpired entry with locked_to set, a retrieval by a
\* requester other than locked_to, or of unknown identity, is rejected as
\* locked with no delivery attempted and no counter changed; a retrieval by
\* the user locked_to goes on to delivery.
C5_LockCheck ==
    [][\A h \in Handlers :
        (Leaves(h, "LockCheck") /\ heap[loc[h].entry].locked_to # 0) =>
            IF loc[h].uid = NoUser \/ loc[h].uid # heap[loc[h].entry].locked_to
            THEN /\ pc'[h] = "done"
                 /\ loc'[h].out = MSG_LOCKED
                 /\ NoDelivery(loc'[h].trace)
                 /\ RegistryKept
            ELSE pc'[h] = "SendPrimary"]_vars
C5_Witness ==
    \E h \in Handlers :
        /\ pc[h] = "done" /\ loc[h].cmd = "get" /\ loc[h].out = MSG_LOCKED
        /\ loc[h].trace = <<"Lookup", "ExpiryCheck", "LockCheck">>

\* C6: the fallback delivery is attempted only after the primary delivery was
\* attempted and failed; the retrieval ends in "send failed" iff both
\* deliveries failed; no delivery is attempted before Lookup, ExpiryCheck and
\* LockCheck have passed, in that order.
C6_DeliveryOrder ==
    \A h \in Handlers :
        LET t == loc[h].trace IN
        /\ \A i \in 1..Len(t) :
            /\ t[i] \in {"Primary:ok", "Primary:failed"} =>
                 i = 4 /\ t[1] = "Lookup" /\ t[2] = "ExpiryCheck" /\ t[3] = "LockCheck"
            /\ t[i] \in {"Fallback:ok", "Fallback:failed"} =>
                 i = 5 /\ t[4] = "Primary:failed"
        /\ (pc[h] = "done" /\ loc[h].cmd = "get") =>
             (loc[h].out = MSG_SEND_FAILED
                <=> {"Primary:failed", "Fallback:failed"} \subseteq Events(t))
C6_Witness ==
    \E h \in Handlers :
        /\ pc[h] = "done" /\ loc[h].out = MSG_SEND_FAILED
        /\ loc[h].trace = <<"Lookup", "ExpiryCheck", "LockCheck", "Primary:failed", "Fallback:failed">>

\* C7: a retrieval adds exactly 1 to the requester's retrieved counter iff a
\* delivery, primary or fallback, succeeded; a retrieval rejected as not
\* found, locked or send failed changes no counter and no entry.
Retrieved(us, uid) ==
    IF \E i \in 1..Len(us) : us[i][1] = StrOf(uid)
    THEN (CHOOSE p \in Events(us) : p[1] = StrOf(uid))[2].retrieved
    ELSE 0
RETRIEVAL_STEPS == {"Lookup", "ExpiryCheck", "LockCheck", "SendPrimary", "SendFallback"}
C7_RetrievedCounter ==
    [][\A h \in Handlers :
        /\ Leaves(h, "inc_retrieved") =>
            /\ Events(loc[h].trace) \cap {"Primary:ok", "Fallback:ok"} # {}
            /\ Retrieved(users', loc[h].uid) = Retrieved(users, loc[h].uid) + 1
            /\ \A p \in Events(users) : p[1] # StrOf(loc[h].uid) => p \in Events(users')
            /\ \A p \in Events(users') : p[1] # StrOf(loc[h].uid) => p \in Events(users)
            /\ \A p \in Events(users') : \A q \in Events(users) : p[1] = q[1] => p[2].uploads = q[2].uploads
            /\ codes' = codes /\ heap' = heap
            /\ pc'[h] = "done" /\ loc'[h].out = DELIVERED
        /\ \A l \in RETRIEVAL_STEPS : Leaves(h, l) =>
            /\ RegistryKept
            /\ pc'[h] = "inc_retrieved"
                 <=> loc'[h].trace[Len(loc'[h].trace)] \in {"Primary:ok", "Fallback:ok"}
            /\ pc'[h] = "done" => loc'[h].out \in {MSG_NOT_FOUND, MSG_LOCKED, MSG_SEND_FAILED}]_vars
\* a requester of unknown identity was served by the fallback delivery
C7_Witness ==
    \E h \in Handlers :
        /\ pc[h] = "done" /\ loc[h].out = DELIVERED
        /\ "Fallback:ok" \in Events(loc[h].trace)
        /\ Retrieved(users, NoUser) = 1

\* ---- rate limiter (C8)
\* the attempts of user u so far, oldest first: <<user, time, accepted>>
AttemptsOf(u) == SelectSeq(hist, LAMBDA e : e[1] = u)
SCENARIO_TIMES == <<0, 1, 2, 3, 11>>
SCENARIO_ACCEPTED == <<TRUE, TRUE, TRUE, FALSE, TRUE>>
\* the attempts of u are the first k of the scenario's
FollowsScenario(u, k) ==
    /\ Len(AttemptsOf(u)) = k
    /\ \A i \in 1..k : AttemptsOf(u)[i][2] = SCENARIO_TIMES[i]

\* C8: check_rate_limit at time T drops the recorded timestamps older than
\* T - W, accepts and records T iff fewer than N remain, and records nothing
\* when it rejects; so with W = 10 and N = 3 attempts at 0, 1, 2 are accepted,
\* one at 3 is rejected and one at 11 is accepted, and a user never has more
\* than N accepted attempts in a span of W seconds.
C8_RateLimiter ==
    /\ [][\A u \in Users :
            hist' # hist /\ hist'[Len(hist')][1] = u =>
              LET T == hist'[Len(hist')][2]
                  kept == SelectSeq(rate_buckets[u], LAMBDA x : x >= T - RATE_LIMIT_WINDOW_SEC)
                  accepted == Len(kept) < RATE_LIMIT_MAX_FILES
              IN  /\ T = clock
                  /\ hist'[Len(hist')][3] = accepted
                  /\ rate_buckets'[u] = IF accepted THEN Append(kept, T) ELSE kept
                  /\ \A v \in Users : v # u => rate_buckets'[v] = rate_buckets[v]]_vars
    /\ [](\A u \in Users : \A k \in 1..Len(SCENARIO_TIMES) :
            FollowsScenario(u, k) =>
                \A i \in 1..k : AttemptsOf(u)[i][3] = SCENARIO_ACCEPTED[i])
    /\ [](\A u \in Users : \A t0 \in 0..MaxSeconds :
            Cardinality({ i \in 1..Len(hist) :
                            /\ hist[i][1] = u /\ hist[i][3]
                            /\ t0 <= hist[i][2] /\ hist[i][2] <= t0 + RATE_LIMIT_WINDOW_SEC })
              <= RATE_LIMIT_MAX_FILES)
\* one user has made the five attempts of the scenario
C8_Witness ==
    \E u \in Users :
        /\ FollowsScenario(u, Len(SCENARIO_TIMES))
        /\ rate_buckets[u] = <<1, 2, 11>>

\* ---- expiry worker (C9, C10)
Expired(e) == e.expires_at # None /\ strptime(e.expires_at) <= clock
\* the expiry worker takes a step from the place `label`
SwLeaves(label) == sw.pc = label /\ sw' # sw

\* C9: in a sweep, for every code of the snapshot: a code that is gone when
\* re-fetched is passed over; an expired entry has the deletion of its storage
\* copy requested and is then removed from the registry, also when the
\* storage deletion fails; entries that are not expired are left as they are.
C9_SweepPerCode ==
    [][/\ (SwLeaves("fetch") /\ sw.todo # <<>>) =>
            /\ RegistryKept /\ storage' = storage
            /\ (\A i \in 1..Len(codes) : codes[i][1] # Head(sw.todo))
                 => sw'.pc = "fetch" /\ sw'.todo = Tail(sw.todo)
       /\ SwLeaves("is_expired") =>
            /\ RegistryKept /\ storage' = storage
            /\ IF Expired(heap[sw.entry])
               THEN sw'.pc = "delete_message"
               ELSE sw'.pc = "fetch" /\ sw'.todo = Tail(sw.todo)
       /\ SwLeaves("delete_message") =>
            /\ RegistryKept
            /\ storage' \in {storage, storage \ {heap[sw.entry].storage_message_id}}
            /\ sw'.pc = "delete_code"
       /\ SwLeaves("delete_code") =>
            /\ \A i \in 1..Len(codes') : codes'[i][2] # sw.entry
            /\ \A i \in 1..Len(codes) :
                 ~Expired(heap[codes[i][2]]) => \E j \in 1..Len(codes') : codes'[j] = codes[i]
            /\ heap' = heap /\ users' = users]_vars

ONE_HOUR == <<"1", "h">>
RejectedNotFound(h) == pc'[h] = "done" /\ loc'[h].out = MSG_NOT_FOUND

\* C10 as stated: after an upload at t0 and `/expire CODE 1h` the entry's
\* expires_at is t0 + 1h; a retrieval at t0 + 59m passes, and one at t0 + 61m
\* is answered "not found" whether or not the sweeper has run.
C10_HourFromUpload ==
    [][\A h \in Handlers :
        /\ (/\ Leaves(h, "expire_update") /\ loc[h].val = ONE_HOUR
            /\ \E i \in 1..Len(codes) : codes[i][1] = loc[h].code) =>
             \E i \in 1..Len(codes) :
                /\ codes[i][1] = loc[h].code
                /\ strptime(heap'[codes[i][2]].expires_at)
                     = strptime(heap[codes[i][2]].uploaded_at) + HOUR
        /\ (Leaves(h, "ExpiryCheck") /\ heap[loc[h].entry].expires_at # None) =>
             LET t0 == strptime(heap[loc[h].entry].uploaded_at) IN
             /\ clock = t0 + 59 * MINUTE => pc'[h] = "LockCheck"
             /\ clock = t0 + 61 * MINUTE => RejectedNotFound(h)]_vars

\* C10, amended: `/expire CODE 1h` handled at time t1 sets expires_at to
\* t1 + 1h, whatever the upload time t0 <= t1; a retrieval whose expiry check
\* runs before t1 + 1h passes it and, the entry being unlocked and the
\* transport working, delivers; one whose check runs at or after t1 + 1h is
\* answered "not found" whether or not the sweeper has removed the entry.
C10_HourFromCommand ==
    [][\A h \in Handlers :
        /\ (Leaves(h, "expire_get") /\ loc[h].val = ONE_HOUR /\ pc'[h] # "done") =>
             /\ pc'[h] = "expire_update"
             /\ strptime(loc'[h].dt) = clock + HOUR
        /\ (/\ Leaves(h, "expire_update")
            /\ \E i \in 1..Len(codes) : codes[i][1] = loc[h].code) =>
             \E i \in 1..Len(codes) :
                /\ codes[i][1] = loc[h].code
                /\ heap'[codes[i][2]].expires_at = loc[h].dt
                /\ codes' = codes
        /\ (Leaves(h, "ExpiryCheck") /\ heap[loc[h].entry].expires_at # None) =>
             IF clock < strptime(heap[loc[h].entry].expires_at)
             THEN pc'[h] = "LockCheck"
             ELSE RejectedNotFound(h) /\ NoDelivery(loc'[h].trace)
        /\ (Leaves(h, "LockCheck") /\ heap[loc[h].entry].locked_to = 0) =>
             pc'[h] = "SendPrimary"
        /\ (Leaves(h, "inc_retrieved")) => loc'[h].out = DELIVERED]_vars
\* 61 minutes after an upload whose `/expire CODE 1h` came two minutes later
\* the file is still delivered
C10_Witness ==
    \E h \in Handlers :
        /\ pc[h] = "done" /\ loc[h].cmd = "get" /\ loc[h].out = DELIVERED
        /\ clock = 61 * MINUTE
        /\ \E i \in 1..Len(codes) :
             /\ heap[codes[i][2]].uploaded_at = strftime(0)
             /\ heap[codes[i][2]].expires_at = strftime(2 * MINUTE + HOUR)

\* ---- is_expired (C11)
\* C11: is_expired(entry, now) is false when expires_at is absent and
\* otherwise true exactly when expires_at <= now; so for an unchanged entry,
\* once it is true at a time t it is true at every later time.
C11_IsExpired ==
    /\ \A i \in 1..Len(hist) :
        hist[i][2] = (/\ heap[1].expires_at # None
                      /\ strptime(heap[1].expires_at) <= hist[i][1])
    /\ (Len(hist) = 2 /\ hist[1][1] <= hist[2][1] /\ hist[1][2]) => hist[2][2]
\* the entry was found expired at the very second of its expiry and again later
C11_Witness ==
    /\ Len(hist) = 2
    /\ heap[1].expires_at = strftime(HOUR)
    /\ hist[1] = <<HOUR, TRUE>>
    /\ hist[2] = <<DAY, TRUE>>

\* ---- unreadable durations (C12)
NEVER == <<"n", "e", "v", "e", "r">>
\* the text is no sentinel, no <int>h, <int>d or <int>m and no bare integer
Unreadable(value) ==
    LET v == Lower(Strip(value)) IN
    /\ v \notin NeverWords
    /\ v # <<"d", "e", "l", "e", "t", "e">>
    /\ ~IntOk(v)
    /\ ~(v # <<>> /\ v[Len(v)] \in {"h", "d", "m"} /\ IntOk(SubSeq(v, 1, Len(v) - 1)))

\* C12: `/expire CODE text` with a text that is not a valid duration has the
\* effect of `never`: expires_at becomes absent, also when an expiry was set
\* before; the command is not rejected and the entry is not deleted.
C12_UnreadableIsNever ==
    [][\A h \in Handlers :
        /\ (Leaves(h, "expire_get") /\ Unreadable(loc[h].val) /\ pc'[h] # "done") =>
             /\ pc'[h] = "expire_update"
             /\ loc'[h].dt = None
             /\ loc'[h].dt = parse_expiry(NEVER, clock)
        /\ (Leaves(h, "expire_get") /\ Unreadable(loc[h].val) /\ pc'[h] = "done") =>
             \/ \A i \in 1..Len(codes) : codes[i][1] # loc[h].code
             \/ loc'[h].out = MSG_ONLY_OWNER
        /\ (/\ Leaves(h, "expire_update") /\ Unreadable(loc[h].val)
            /\ \E i \in 1..Len(codes) : codes[i][1] = loc[h].code) =>
             /\ codes' = codes /\ users' = users
             /\ heap' = [heap EXCEPT ![loc[h].entry].expires_at = None]
             /\ disk' = Dump(codes, heap', users)
             /\ loc'[h].out = MSG_EXPIRY_SET]_vars
\* an unreadable duration is about to clear an expiry that was set
C12_Witness ==
    \E h \in Handlers :
        /\ pc[h] = "expire_update" /\ Unreadable(loc[h].val) /\ loc[h].dt = None
        /\ heap[loc[h].entry].expires_at # None

\* the patch a handler passes to update_code when it leaves `label`
PatchField(label) == IF label = "lock_update" THEN "locked_to" ELSE "expires_at"
PatchValue(h, label) == IF label = "lock_update" THEN loc[h].uid ELSE loc[h].dt
UPDATE_STEPS == {"lock_update", "expire_update"}

\* C13: update_code(code, patch) changes neither the registry nor the file when
\* code is absent; when code is present it sets exactly the patched field of
\* that entry and leaves its other fields (uploader included), every other
\* entry, the codes mapping and all user stats as they were.
C13_UpdateFrame ==
    [][\A h \in Handlers : \A label \in UPDATE_STEPS :
        Leaves(h, label) =>
          IF \A i \in 1..Len(codes) : codes[i][1] # loc[h].code
          THEN /\ codes' = codes /\ heap' = heap /\ users' = users /\ disk' = disk
          ELSE /\ codes' = codes /\ users' = users
               /\ Len(heap') = Len(heap)
               /\ \A r \in 1..Len(heap) :
                    /\ DOMAIN heap'[r] = DOMAIN heap[r]
                    /\ \A f \in DOMAIN heap[r] :
                         heap'[r][f] =
                           IF /\ \E i \in 1..Len(codes) : codes[i] = <<loc[h].code, r>>
                              /\ f = PatchField(label)
                           THEN PatchValue(h, label)
                           ELSE heap[r][f]]_vars
\* the owner has locked another user's entry: locked_to is set, uploader kept,
\* and a second entry is in the registry
C13_Witness ==
    \E h \in Handlers : \E i, j \in 1..Len(codes) :
        /\ i # j
        /\ pc[h] = "done" /\ loc[h].cmd = "lock_code" /\ loc[h].out = MSG_LOCK_SET
        /\ heap[codes[i][2]].locked_to = OWNER_ID
        /\ heap[codes[i][2]].uploader # OWNER_ID
        /\ heap[codes[j][2]].locked_to # OWNER_ID
\* update_code ran on a code that was removed after the handler had fetched it
C13_AbsentCase ==
    \E h \in Handlers :
        /\ pc[h] \in UPDATE_STEPS
        /\ \A i \in 1..Len(codes) : codes[i][1] # loc[h].code

\* the user a /delete_user message names, NoUser when it names none
Named(l) ==
    IF is_admin(l.uid) /\ l.val # None /\ IntOk(l.val) THEN IntOf(l.val) ELSE NoUser
WithoutUser(us, user_id) ==
    SelectSeq(us, LAMBDA p : user_id = NoUser \/ p[1] # StrOf(user_id))

\* C14: delete_user(user_id) removes that user's stats record and nothing
\* else: the codes mapping and the entries, those uploaded by user_id
\* included, the archived copies and the other users' stats stay as they
\* were, and a later retrieval of such an entry still finds it.
C14_DeleteUserFrame ==
    [][\A h \in Handlers :
        /\ Leaves(h, "delete_user") =>
             /\ codes' = codes /\ heap' = heap /\ storage' = storage
             /\ users' = WithoutUser(users, Named(loc[h]))
             /\ disk'.codes = disk.codes
        /\ (/\ Leaves(h, "Lookup")
            /\ \E i \in 1..Len(codes) :
                 /\ codes[i][1] = loc[h].code
                 /\ \A j \in 1..Len(users) :
                      users[j][1] # StrOf(heap[codes[i][2]].uploader)) =>
             /\ pc'[h] = "ExpiryCheck"
             /\ loc'[h].entry = get_code(loc[h].code)]_vars
\* user 2 uploaded the only entry and has had the stats deleted; the entry is
\* still there and has just been delivered to the other user
C14_Witness ==
    \E h \in Handlers :
        /\ pc[h] = "done" /\ loc[h].cmd = "get" /\ loc[h].out = DELIVERED
        /\ Len(codes) = 1 /\ heap[codes[1][2]].uploader = 2
        /\ \A j \in 1..Len(users) : users[j][1] # StrOf(2)
        /\ \E j \in 1..Len(users) : users[j] = <<StrOf(OWNER_ID), [uploads |-> 0, retrieved |-> 1]>>

\* C15: an upload whose copy to the storage chat fails ends there with the
\* storage error: no entry, no upload count, nothing written to the file and
\* nothing added to the storage chat. Conversely an entry enters the registry
\* only by the put_code of an upload that has archived its file, and every
\* entry of the registry refers to such an archived copy.
C15_FailedArchive ==
    [][/\ \A h \in Handlers :
            (Leaves(h, "archive") /\ archived' = archived) =>
              /\ pc'[h] = "done" /\ loc'[h].out = MSG_NO_STORAGE
              /\ codes' = codes /\ heap' = heap /\ users' = users /\ disk' = disk
              /\ storage' = storage
       /\ heap' # heap =>
            \E h \in Handlers :
              /\ pc[h] = "put_code" /\ loc[h].cmd = "upload"
              /\ loc[h].smid \in 1..archived
              /\ heap' = Append(heap, NewEntry(h))
              /\ heap'[Len(heap')].storage_message_id = loc[h].smid
              /\ codes' = Append(codes, <<loc[h].code, Len(heap')>>)
       /\ \A i \in 1..Len(codes') :
            /\ codes'[i][2] \in 1..Len(heap')
            /\ heap'[codes'[i][2]].storage_message_id \in 1..archived'
            /\ \/ \E j \in 1..Len(codes) : codes[j] = codes'[i]
               \/ codes'[i][2] = Len(heap) + 1]_vars
\* user 2's first upload was saved, the second was admitted by the rate
\* limiter and then failed to archive: one entry, one counted upload
C15_Witness ==
    \E h \in Handlers :
        /\ pc[h] = "done" /\ loc[h].cmd = "upload" /\ loc[h].out = MSG_NO_STORAGE
        /\ Len(codes) = 1 /\ archived = 1 /\ storage = {1}
        /\ users = << <<StrOf(2), [uploads |-> 1, retrieved |-> 0]>> >>
        /\ Len(rate_buckets[2]) = 2

\* the last query answered
Asked(call) == hist # <<>> /\ hist[1].call = call
Returns(result, code) == \E k \in 1..Len(result) : result[k].code = code
Concatenation(x) == Lower(x.code \o x.file_type \o x.file_name \o x.caption \o x.mime_type)

C16_NoMatch ==
    Asked("search_codes") /\ hist[1].arg = <<"v", "v", "v">> /\ hist[1].result = <<>>

Matching(call, arg) ==
    SelectSeq(Items(codes, heap),
              LAMBDA x : IF call = "list_by_category" THEN x.category = arg
                         ELSE x.uploader = arg)
Seconds(x) == strptime(x.uploaded_at)
LIST_CALLS == {"list_by_category", "list_by_user"}

\* C17: list_by_category(category, limit) and list_by_user(user_id, limit)
\* return entries of the registry whose category (uploader) is the argument,
\* each once, latest upload first, as many as match up to limit; no matching
\* entry left out was uploaded after one returned; the registry is as before.
C17_Lists ==
    \A call \in LIST_CALLS : Asked(call) =>
        LET r == hist[1].result IN
        LET all == Matching(call, hist[1].arg) IN
        /\ Len(r) = (IF hist[1].limit < Len(all) THEN hist[1].limit ELSE Len(all))
        /\ \A k \in 1..Len(r) : \E i \in 1..Len(all) : r[k] = all[i]
        /\ \A k, l \in 1..Len(r) : k # l => r[k].code # r[l].code
        /\ \A k, l \in 1..Len(r) : k < l => Seconds(r[k]) >= Seconds(r[l])
        /\ \A i \in 1..Len(all) :
             ~Returns(r, all[i].code) =>
                 \A k \in 1..Len(r) : Seconds(r[k]) >= Seconds(all[i])
        /\ disk = Dump(codes, heap, users)
        /\ \A i \in 1..Len(codes) : codes[i] = <<QueryCodes[i], i>>
        /\ \A i \in 1..Len(heap) : heap[i] \in QueryEntries
\* list_by_user(2, 2) over three entries of user 2 of which the first stored
\* is the oldest: the two later uploads are returned, in the order stored
C17_Witness ==
    /\ Asked("list_by_user") /\ hist[1].arg = 2 /\ hist[1].limit = 2
    /\ Len(Matching("list_by_user", 2)) = 3
    /\ Len(hist[1].result) = 2
    /\ hist[1].result[1].code = QueryCodes[2]
    /\ hist[1].result[2].code = QueryCodes[3]
    /\ Seconds(heap[1]) < Seconds(heap[2])

\* the accepted attempts of user u, as <<user, time, accepted>> records
AcceptedOf(u) == { i \in 1..Len(hist) : hist[i][1] = u /\ hist[i][3] }
InBucket(u, t) == Cardinality({ k \in 1..Len(rate_buckets[u]) : rate_buckets[u][k] = t })

\* C18: attempts of one user are serialized: however the worker threads
\* interleave, a user has at most RATE_LIMIT_MAX_FILES accepted attempts in
\* any span of RATE_LIMIT_WINDOW_SEC seconds, every accepted timestamp still
\* inside the window is in the user's history, and no attempt ends in an
\* error.
C18_Serialized ==
    \A u \in Users :
        /\ \A i \in AcceptedOf(u) :
             Cardinality({ j \in AcceptedOf(u) :
                             /\ hist[i][2] <= hist[j][2]
                             /\ hist[j][2] <= hist[i][2] + RATE_LIMIT_WINDOW_SEC })
               <= RATE_LIMIT_MAX_FILES
        /\ \A i \in AcceptedOf(u) :
             clock - hist[i][2] <= RATE_LIMIT_WINDOW_SEC =>
               InBucket(u, hist[i][2]) >= Cardinality({ j \in AcceptedOf(u) : hist[j][2] = hist[i][2] })
        /\ \A h \in Handlers : loc[h].out # INDEX_ERROR

\* entry r is in the registry and its expiry has passed
Due(r) ==
    /\ r \in 1..Len(heap)
    /\ \E i \in 1..Len(codes) : codes[i][2] = r
    /\ Expired(heap[r])

\* C19: with the expiry worker scheduled fairly, an entry whose expiry has
\* passed is eventually out of the registry unless a command gives it a new
\* expiry first; the worker starts a sweep again and again for ever, also
\* after a sweep that raised.
C19_EventuallySwept ==
    /\ \A r \in 1..Len(LiveCodes) : Due(r) ~> ~Due(r)
    /\ []<>(sw.pc = "fetch")
    /\ (hist # <<>>) ~> (sw.pc = "fetch")
\* a sweep raised, and an entry whose expiry had passed is gone from the
\* registry with no command having deleted it
C19_Witness ==
    /\ hist # <<>>
    /\ \E r \in 1..Len(heap) :
         /\ Expired(heap[r])
         /\ \A i \in 1..Len(codes) : codes[i][2] # r

\* the stats record of the user with key k, NewUser when there is none
StatsOf(us, k) == IF Has(us, k) THEN Get(us, k) ELSE NewUser
UserKeys == { StrOf(u) : u \in Users \cup {NoUser} }
\* the step is the delete_user of a /delete_user naming the user with key k
Resets(k) ==
    \E h \in Handlers : Leaves(h, "delete_user") /\ Named(loc[h]) # NoUser
                          /\ StrOf(Named(loc[h])) = k
INC_STEPS == {"inc_upload", "inc_retrieved"}

\* C20: through uploads, retrievals, lock, rename, expire and sweeps no user's
\* upload or retrieval count goes down and no stats record disappears; only
\* the delete_user of /delete_user removes a record; and a record appears
\* only in an increment for that user, holding that first count of one.
C20_CountersMonotone ==
    [][\A k \in UserKeys :
        /\ (Has(users, k) /\ ~Resets(k)) =>
             /\ Has(users', k)
             /\ StatsOf(users', k).uploads >= StatsOf(users, k).uploads
             /\ StatsOf(users', k).retrieved >= StatsOf(users, k).retrieved
        /\ (~Has(users, k) /\ Has(users', k)) =>
             \E h \in Handlers :
                 /\ pc[h] \in INC_STEPS /\ StrOf(loc[h].uid) = k
                 /\ StatsOf(users', k) =
                      [NewUser EXCEPT ![IF pc[h] = "inc_upload" THEN "uploads" ELSE "retrieved"] = 1]]_vars
\* user 2 has uploaded and retrieved, the entry has since been given an
\* expiry and swept, and the counts stand
C20_Witness ==
    /\ codes = <<>> /\ Len(heap) = 1 /\ heap[1].expires_at # None
    /\ \A h \in Handlers : pc[h] \in {"idle", "done"}
    /\ sw.pc = "sleep"
    /\ Has(users, StrOf(2)) /\ StatsOf(users, StrOf(2)) = [uploads |-> 1, retrieved |-> 1]

\* the calls of one counter of user u that have returned
Returned_calls(u, counter) == Cardinality({ i \in 1..Len(hist) : hist[i] = <<u, counter>> })
Quiet == \A h \in Handlers : pc[h] \in {"idle", "done"}
COUNTERS == {"uploads", "retrieved"}

\* C21: no increment is lost: once the calls of inc_upload and inc_retrieved
\* made by the worker threads have all returned, however they interleaved,
\* each counter of each user equals the number of calls made for it, a user
\* has a stats record exactly when a call was made for that user, and the
\* file shows the same records.
C21_NoLostIncrement ==
    Quiet =>
        /\ \A u \in Users :
             /\ \A c \in COUNTERS :
                  (IF Has(users, StrOf(u)) THEN Get(users, StrOf(u))[c] ELSE 0)
                      = Returned_calls(u, c)
             /\ Has(users, StrOf(u)) <=> \E c \in COUNTERS : Returned_calls(u, c) > 0
        /\ disk = Dump(codes, heap, users)
\* both threads have returned from calls for user 2, whose record counts three
\* uploads and one retrieval
C21_Witness ==
    /\ pc[1] = "done" /\ pc[2] = "done"
    /\ loc[1].cmd = "db.inc_upload" /\ loc[2].cmd = "db.inc_upload"
    /\ users = << <<StrOf(2), [uploads |-> 3, retrieved |-> 1]>> >>

\* C22: whenever the registry lock is free the file holds exactly the codes
\* and users mappings of memory: put, update, delete, rename, the increments
\* and delete_user have each saved their change by the time they release the
\* lock, however the handlers and the expiry worker interleave.
C22_WriteThrough == lock = 0 => disk = Dump(codes, heap, users)
\* an upload, a rename and an increment have returned: the entry is under its
\* new code, user 2 has a record, and nobody holds the lock
C22_Witness ==
    /\ lock = 0 /\ Quiet
    /\ Has(codes, LiveCodes[2]) /\ ~Has(codes, ClockCode)
    /\ Has(users, StrOf(2)) /\ Has(users, StrOf(OWNER_ID))

\* C23: the mapping of codes is read and written only under the registry
\* lock: neither the expiry worker nor `/storage_clean` takes its snapshot of
\* the codes while a worker thread holds the lock in the middle of a change.
C23_LockedAccess ==
    [][/\ (SwLeaves("sleep") /\ sw'.pc = "fetch") => lock = 0
       /\ \A h \in Handlers :
            (Leaves(h, "clean_snapshot") /\ pc'[h] = "clean_fetch") => lock \in {0, h}]_vars

\* The steps that call the transport: copy_message into the storage chat,
\* the two ways of delivering, and delete_message; "done" is the state of a
\* handler that has sent its answer.
TRANSPORT_LABELS ==
    {"archive", "SendPrimary", "SendFallback", "expire_delete_message",
     "clean_delete_message", "done"}
\* C24: a thread that is at a call of the transport, or has just answered,
\* does not hold the registry lock; so a transport call that blocks leaves
\* the lock to the registry operations of the others.
C24_NoTransportUnderLock ==
    \A h \in Handlers : pc[h] \in TRANSPORT_LABELS => lock # h
\* one thread is about to deliver while the other holds the lock inside
\* rename_code
C24_Witness ==
    /\ pc[1] = "SendFallback"
    /\ pc[2] = "rename_store" /\ lock = 2

\* string.ascii_lowercase + string.digits, as far as the characters of the
\* model go
IsCodeChar(ch) ==
    \/ IsDigit(ch)
    \/ ch \in DrawChars
    \/ \E i \in 1..Len(LowerCase) : LowerCase[i] = ch
WellFormedCode(code) ==
    Len(code) = CODE_LENGTH /\ \A i \in 1..Len(code) : IsCodeChar(code[i])
\* C25: every key of the codes mapping is a string of CODE_LENGTH lowercase
\* letters and digits, whatever was uploaded, renamed, locked, expired,
\* deleted or swept.
C25_WellFormedKeys == \A i \in 1..Len(codes) : WellFormedCode(codes[i][1])

\* C26: the choice of a code in save_file_entry comes to an end: a thread
\* that is drawing codes leaves the loop, with a free code or with a failure,
\* even when every code is in use.
C26_Terminates == \A h \in Handlers : (pc[h] = "gen_code") ~> (pc[h] # "gen_code")

\* what delete_code(code) removes now, called by one who examined entry
RemovesExamined(code, entry) ==
    \A i \in 1..Len(codes) :
        codes[i][1] = code => codes[i][2] = entry /\ Expired(heap[codes[i][2]])
\* C27: what the expiry worker and `/storage_clean` remove with delete_code
\* is the entry they fetched and found expired, and it is expired when it is
\* removed, whatever the worker threads did since the fetch.
C27_RemovesOnlyExpired ==
    [][/\ SwLeaves("delete_code") => RemovesExamined(sw.code, sw.entry)
       /\ \A h \in Handlers :
            Leaves(h, "clean_delete_code") => RemovesExamined(loc[h].code, loc[h].entry)]_vars

\* the steps at which `/lock_code`, `/rename_code` and `/expire` change the
\* registry
CHANGE_STEPS == {"lock_update", "rename_code", "expire_update", "expire_delete_code"}
\* C28: the entry that a `/lock_code`, `/rename_code` or `/expire` locks,
\* renames, re-expires or deletes is one that its sender uploaded, unless the
\* sender is an admin, whatever renames and uploads are handled meanwhile.
C28_OwnEntriesOnly ==
    [][\A h \in Handlers :
         (pc[h] \in CHANGE_STEPS /\ Leaves(h, pc[h])) =>
            \A i \in 1..Len(codes) :
                codes[i][1] = loc[h].code => may_change(heap[codes[i][2]], loc[h].uid)]_vars
====
